---- MODULE Spec2Model ----
(***************************************************************************)
(* ecs2k8s: conversion of ECS task definitions into Kubernetes manifests.  *)
(*                                                                         *)
(* Strings are sequences of symbols.  A symbol is one character, or a      *)
(* fixed literal fragment that holds no separator, wildcard or dot         *)
(* character (such as "-deployment" or "yaml").  An optional (pointer)     *)
(* value is <<>> when nil and <<v>> when it points to v.  The GoType     *)
(* field of a record names the Go struct type it stands for.              *)
(*                                                                         *)
(* Four specifications share the converter's operators:                    *)
(*   SpecQty    the resource quantity mapper on int32 inputs               *)
(*   SpecConv   convertTaskDefToInfo / convertTaskDefToK8s / Helm values   *)
(*   SpecWrite  writeManifests against a directory                         *)
(*   Spec       runEcs2K8s from listTaskDefinitions to its return          *)
(***************************************************************************)
EXTENDS Integers, Sequences, FiniteSets, TLC

VARIABLES
    \* --- resource quantity mapper (SpecQty)
    qCpu,           \* *int32 handed to cpuToQuantity
    qMem,           \* *int32 handed to memoryToQuantity
    qCpuOut,        \* <<>> or <<resource.Quantity>> returned by cpuToQuantity
    qMemOut,        \* <<>> or <<resource.Quantity>> returned by memoryToQuantity
    \* --- conversion of one task definition (SpecConv)
    cTaskDef,       \* the *types.TaskDefinition being converted
    cPc,            \* position in the body of the task loop of runEcs2K8s
    cInfo,          \* <<>> or <<TaskDefInfo>>
    cManifests,     \* K8sManifests returned by convertTaskDefToK8s
    cErr,           \* error returned by convertTaskDefToK8s
    cValues,        \* <<>> or <<values map marshalled into values.yaml>>
    \* --- the output directory and writeManifests (SpecWrite, Spec)
    wDir,           \* outputDir: its path and what os.Stat and a write find there
    fsFiles,        \* the files on disk: absolute path -> content
    wTaskName,      \* taskDefName argument
    wManifests,     \* manifests argument
    wPc,            \* position in writeManifests
    wFiles,         \* entries of the files map the range loop has not visited
    wErr,           \* error returned by writeManifests
    wWritten,       \* paths the os.WriteFile of line 332 has written in this call
    \* --- runEcs2K8s (Spec)
    createHelm,     \* flag
    createKustomize,\* flag
    rPc,            \* position in runEcs2K8s
    taskDefs,       \* ARNs returned by listTaskDefinitions
    rIdx,           \* index of the ARN the task loop is at
    successCount,
    failureCount,
    taskDefInfos,   \* []*TaskDefInfo handed to the packagers
    rCur,           \* <<>> or <<TaskDefInfo of the task being written>>
    rHelm,          \* "none", "ok" or "failed": what CreateHelmChart did
    rKustomize,     \* "none", "ok", "warned" or "failed": what CreateKustomizeChart did
    summaryPrinted, \* the summary report of lines 308-322 was logged
    rResult         \* error returned by runEcs2K8s

qtyVars == <<qCpu, qMem, qCpuOut, qMemOut>>

convVars == <<cTaskDef, cPc, cInfo, cManifests, cErr, cValues>>

writeVars == <<wDir, fsFiles, wTaskName, wManifests, wPc, wFiles, wErr, wWritten>>

runVars == <<createHelm, createKustomize, rPc, taskDefs, rIdx, successCount, failureCount,
             taskDefInfos, rCur, rHelm, rKustomize, summaryPrinted, rResult>>

vars == <<qCpu, qMem, qCpuOut, qMemOut, cTaskDef, cPc, cInfo, cManifests, cErr, cValues,
          wDir, fsFiles, wTaskName, wManifests, wPc, wFiles, wErr, wWritten,
          createHelm, createKustomize, rPc, taskDefs, rIdx, successCount, failureCount,
          taskDefInfos, rCur, rHelm, rKustomize, summaryPrinted, rResult>>

-----------------------------------------------------------------------------
(* Bounds of the model *)

\* how far around each threshold the int32 inputs of the quantity mapper go
QtyWindow == 2

\* longest environment list of a container definition
MaxEnv == 2

\* longest port mapping list of a container definition
MaxPorts == 2

\* most container definitions in a task definition
MaxContainers == 2

\* most task definition ARNs listTaskDefinitions returns
MaxTasks == 2

-----------------------------------------------------------------------------
(* Generic helpers *)

Range(s) == {s[i] : i \in 1..Len(s)}

IsNil(p) == p = <<>>

Deref(p) == p[1]

Ptr(v) == <<v>>

Int32Max == 2^30 + (2^30 - 1)

Int32Min == (-Int32Max) - 1

-----------------------------------------------------------------------------
(* Resource Quantity Mapper *)

\* a CPU quantity is a number of millicores (scale -3, DecimalSI)
MilliQuantity(n) == [milli |-> n, format |-> "DecimalSI"]

\* a memory quantity is a number of bytes, BinarySI; an int64 is held as
\* hi * 2^20 + lo with 0 <= lo < 2^20, the checker's integers being 32 bits wide
Int64(n) == [hi |-> n \div (2^20), lo |-> n % (2^20)]

Times1024(q) ==
    LET t == q.lo * 1024
    IN  [hi |-> q.hi * 1024 + (t \div (2^20)), lo |-> t % (2^20)]

BytesQuantity(q) == [hi |-> q.hi, lo |-> q.lo, format |-> "BinarySI"]

\* resource.MustParse of the three literals the mapper uses
MustParse(lit) ==
    CASE lit = "100m"   -> MilliQuantity(100)
      [] lit = "16000m" -> MilliQuantity(16000)
      [] lit = "128Mi"  -> BytesQuantity(Times1024(Times1024(Int64(128))))
      [] lit = "256Gi"  -> BytesQuantity(Times1024(Times1024(Times1024(Int64(256)))))

CpuCapMilli == 16000

MemCapMB == 262144

\* a CPU mapper that gives the default to negative values only
cpuToQuantityZeroKept(cpu) ==
    IF IsNil(cpu) \/ Deref(cpu) < 0
    THEN MustParse("100m")
    ELSE IF Deref(cpu) > CpuCapMilli
         THEN MustParse("16000m")
         ELSE MilliQuantity(Deref(cpu))

cpuToQuantity(cpu) ==
    IF IsNil(cpu) \/ Deref(cpu) <= 0
    THEN MustParse("100m")
    ELSE IF Deref(cpu) > CpuCapMilli
         THEN MustParse("16000m")
         ELSE MilliQuantity(Deref(cpu))

\* a memory mapper without the 256Gi cap
memoryToQuantityUncapped(memory) ==
    IF IsNil(memory) \/ Deref(memory) <= 0
    THEN MustParse("128Mi")
    ELSE BytesQuantity(Times1024(Times1024(Int64(Deref(memory)))))

memoryToQuantity(memory) ==
    IF IsNil(memory) \/ Deref(memory) <= 0
    THEN MustParse("128Mi")
    ELSE IF Deref(memory) > MemCapMB
         THEN MustParse("256Gi")
         ELSE BytesQuantity(Times1024(Times1024(Int64(Deref(memory)))))

\* Quantity.String(): the canonical form, the largest suffix that keeps the
\* number an integer; rendered as the number and its suffix
QuantityString(q) ==
    IF q.format = "DecimalSI"
    THEN IF q.milli % 1000 = 0
         THEN [num |-> q.milli \div 1000, suffix |-> ""]
         ELSE [num |-> q.milli, suffix |-> "m"]
    ELSE IF q.lo # 0
         THEN IF q.hi = 0 /\ q.lo % 1024 = 0
              THEN [num |-> q.lo \div 1024, suffix |-> "Ki"]
              ELSE [num |-> q.hi * (2^20) + q.lo, suffix |-> ""]
         ELSE IF q.hi % (2^20) = 0 /\ q.hi # 0
              THEN [num |-> q.hi \div (2^20), suffix |-> "Ti"]
              ELSE IF q.hi % 1024 = 0 /\ q.hi # 0
                   THEN [num |-> q.hi \div 1024, suffix |-> "Gi"]
                   ELSE [num |-> q.hi, suffix |-> "Mi"]

-----------------------------------------------------------------------------
(* Strings *)

UpperOf ==
    [a |-> "A", b |-> "B", c |-> "C", d |-> "D", e |-> "E", f |-> "F", g |-> "G",
     h |-> "H", i |-> "I", j |-> "J", k |-> "K", l |-> "L", m |-> "M", n |-> "N",
     o |-> "O", p |-> "P", q |-> "Q", r |-> "R", s |-> "S", t |-> "T", u |-> "U",
     v |-> "V", w |-> "W", x |-> "X", y |-> "Y", z |-> "Z"]

\* strings.ToUpper
ToUpper(str) ==
    [i \in 1..Len(str) |-> IF str[i] \in DOMAIN UpperOf THEN UpperOf[str[i]] ELSE str[i]]

\* strings.HasPrefix
HasPrefix(str, prefix) ==
    /\ Len(str) >= Len(prefix)
    /\ SubSeq(str, 1, Len(prefix)) = prefix

\* strings.Contains for a one-character needle
ContainsChar(str, char) == \E i \in 1..Len(str) : str[i] = char

\* a Go map[string]string is a function on its set of keys; m[k] = v
MapPut(m, k, v) == [x \in (DOMAIN m) \cup {k} |-> IF x = k THEN v ELSE m[x]]

EmptyMap == <<>>

-----------------------------------------------------------------------------
(* Environment Classifier *)

secretPrefixes ==
    << <<"A","W","S">>,
       <<"S","E","C","R","E","T">>,
       <<"P","A","S","S","W","O","R","D">>,
       <<"T","O","K","E","N">>,
       <<"K","E","Y">>,
       <<"P","R","I","V","A","T","E">>,
       <<"A","C","C","E","S","S">>,
       <<"A","U","T","H">>,
       <<"C","E","R","T">> >>

\* a classifier that compares the name as written, without strings.ToUpper
isSecretEnvVarCaseSensitive(name) ==
    \E i \in 1..Len(secretPrefixes) : HasPrefix(name, secretPrefixes[i])

isSecretEnvVar(name) ==
    \E i \in 1..Len(secretPrefixes) : HasPrefix(ToUpper(name), secretPrefixes[i])

\* the loop of createConfigMap (lines 940-954)
RECURSIVE configMapData(_, _)
configMapData(envVars, data) ==
    IF envVars = <<>> THEN data
    ELSE LET env == Head(envVars)
         IN  IF IsNil(env.Name) \/ Deref(env.Name) = <<>>
             THEN configMapData(Tail(envVars), data)
             ELSE IF IsNil(env.Value)
                  THEN configMapData(Tail(envVars), data)
                  ELSE IF ~isSecretEnvVar(Deref(env.Name))
                       THEN configMapData(Tail(envVars),
                                          MapPut(data, Deref(env.Name), Deref(env.Value)))
                       ELSE configMapData(Tail(envVars), data)

\* nil (<<>>) when no variable is left
createConfigMap(containerName, envVars) ==
    LET data == configMapData(envVars, EmptyMap)
    IN  IF Cardinality(DOMAIN data) > 0
        THEN Ptr([GoType |-> "ConfigMap",
                  Name |-> containerName \o <<"-config">>,
                  Data |-> data])
        ELSE <<>>

\* the loop of createSecret (lines 973-985)
RECURSIVE secretData(_, _)
secretData(envVars, data) ==
    IF envVars = <<>> THEN data
    ELSE LET env == Head(envVars)
         IN  IF IsNil(env.Name) \/ Deref(env.Name) = <<>>
             THEN secretData(Tail(envVars), data)
             ELSE IF IsNil(env.Value)
                  THEN secretData(Tail(envVars), data)
                  ELSE IF isSecretEnvVar(Deref(env.Name))
                       THEN secretData(Tail(envVars),
                                       MapPut(data, Deref(env.Name), Deref(env.Value)))
                       ELSE secretData(Tail(envVars), data)

createSecret(containerName, envVars) ==
    LET data == secretData(envVars, EmptyMap)
    IN  IF Cardinality(DOMAIN data) > 0
        THEN Ptr([GoType |-> "Secret",
                  Name |-> containerName \o <<"-secret">>,
                  Type |-> "Opaque",
                  StringData |-> data])
        ELSE <<>>

-----------------------------------------------------------------------------
(* Container Translator *)

PortMin == 1

PortMax == 65535

RECURSIVE convertPorts(_)
convertPorts(portMappings) ==
    IF portMappings = <<>> THEN <<>>
    ELSE LET pm == Head(portMappings)
         IN  IF IsNil(pm.ContainerPort)
             THEN convertPorts(Tail(portMappings))
             ELSE IF Deref(pm.ContainerPort) < PortMin \/ Deref(pm.ContainerPort) > PortMax
                  THEN convertPorts(Tail(portMappings))
                  ELSE <<[ContainerPort |-> Deref(pm.ContainerPort), Protocol |-> "TCP"]>>
                         \o convertPorts(Tail(portMappings))

RECURSIVE convertEnvVars(_)
convertEnvVars(envs) ==
    IF envs = <<>> THEN <<>>
    ELSE LET env == Head(envs)
         IN  IF IsNil(env.Name) \/ Deref(env.Name) = <<>>
             THEN convertEnvVars(Tail(envs))
             ELSE IF IsNil(env.Value)
                  THEN convertEnvVars(Tail(envs))
                  ELSE <<[Name |-> Deref(env.Name), Value |-> Deref(env.Value)]>>
                         \o convertEnvVars(Tail(envs))

\* a port list that keeps every mapping with a container port, whatever its number
RECURSIVE servicePortsUnfiltered(_)
servicePortsUnfiltered(portMappings) ==
    IF portMappings = <<>> THEN <<>>
    ELSE LET pm == Head(portMappings)
         IN  IF IsNil(pm.ContainerPort)
             THEN servicePortsUnfiltered(Tail(portMappings))
             ELSE <<[Port |-> Deref(pm.ContainerPort),
                     TargetPort |-> Deref(pm.ContainerPort),
                     Protocol |-> "TCP"]>>
                    \o servicePortsUnfiltered(Tail(portMappings))

\* the loop of createService (lines 1025-1046)
RECURSIVE servicePorts(_)
servicePorts(portMappings) ==
    IF portMappings = <<>> THEN <<>>
    ELSE LET pm == Head(portMappings)
         IN  IF IsNil(pm.ContainerPort)
             THEN servicePorts(Tail(portMappings))
             ELSE IF Deref(pm.ContainerPort) < PortMin \/ Deref(pm.ContainerPort) > PortMax
                  THEN servicePorts(Tail(portMappings))
                  ELSE <<[Port |-> Deref(pm.ContainerPort),
                          TargetPort |-> Deref(pm.ContainerPort),
                          Protocol |-> "TCP"]>>
                         \o servicePorts(Tail(portMappings))

createService(containerName, portMappings) ==
    IF Len(portMappings) = 0 THEN <<>>
    ELSE IF Len(servicePorts(portMappings)) = 0 THEN <<>>
    ELSE Ptr([GoType |-> "Service",
              Name |-> containerName,
              Selector |-> [app |-> containerName],
              Ports |-> servicePorts(portMappings),
              Type |-> "ClusterIP"])

-----------------------------------------------------------------------------
(* Identity Resolver *)

RoleArnAnnotation == "eks.amazonaws.com/role-arn"

\* an identity resolver that looks at the execution role first
createServiceAccountExecutionFirst(taskDefName, taskRoleArn, executionRoleArn) ==
    LET name == IF taskDefName = <<>> THEN <<"default">> ELSE taskDefName
        roleARN == IF ~IsNil(executionRoleArn) /\ Deref(executionRoleArn) # <<>>
                   THEN Deref(executionRoleArn)
                   ELSE IF ~IsNil(taskRoleArn) /\ Deref(taskRoleArn) # <<>>
                        THEN Deref(taskRoleArn)
                        ELSE <<>>
    IN  Ptr([GoType |-> "ServiceAccount",
             Name |-> name \o <<"-sa">>,
             Namespace |-> <<"default">>,
             Annotations |-> IF roleARN # <<>>
                             THEN [x \in {RoleArnAnnotation} |-> roleARN]
                             ELSE EmptyMap])

createServiceAccount(taskDefName, taskRoleArn, executionRoleArn) ==
    LET name == IF taskDefName = <<>> THEN <<"default">> ELSE taskDefName
        roleARN == IF ~IsNil(taskRoleArn) /\ Deref(taskRoleArn) # <<>>
                   THEN Deref(taskRoleArn)
                   ELSE IF ~IsNil(executionRoleArn) /\ Deref(executionRoleArn) # <<>>
                        THEN Deref(executionRoleArn)
                        ELSE <<>>
    IN  Ptr([GoType |-> "ServiceAccount",
             Name |-> name \o <<"-sa">>,
             Namespace |-> <<"default">>,
             Annotations |-> IF roleARN # <<>>
                             THEN [x \in {RoleArnAnnotation} |-> roleARN]
                             ELSE EmptyMap])

-----------------------------------------------------------------------------
(* Manifest Assembler *)

\* K8sManifests{}
EmptyManifests ==
    [Deployment |-> <<>>, ConfigMaps |-> <<>>, Secrets |-> <<>>, Services |-> <<>>,
     ServiceAccount |-> <<>>, Containers |-> <<>>]

NoError == "nil"

ErrNoContainerDefinitions == "no container definitions found"

ErrNoValidContainers == "no valid containers to convert"

\* a translator that drops a container only when its name is absent, not when it is empty
convertContainerEmptyNameKept(container, acc) ==
    IF IsNil(container.Name)
    THEN acc
    ELSE IF IsNil(container.Image) \/ Deref(container.Image) = <<>>
    THEN acc
    ELSE
      LET containerName == Deref(container.Name)
          ports == convertPorts(container.PortMappings)
          envVars == convertEnvVars(container.Environment)
          cpuQty == cpuToQuantity(Ptr(container.Cpu))
          memoryQty == memoryToQuantity(container.Memory)
          c == [Name |-> containerName,
                Image |-> Deref(container.Image),
                Ports |-> ports,
                Env |-> envVars,
                Resources |-> [Limits |-> [cpu |-> cpuQty, memory |-> memoryQty],
                               Requests |-> [cpu |-> cpuQty, memory |-> memoryQty]]]
          resources == [Name |-> containerName,
                        CPU |-> <<QuantityString(cpuQty)>>,
                        Memory |-> <<QuantityString(memoryQty)>>,
                        Ports |-> [i \in 1..Len(ports) |-> ports[i].ContainerPort]]
          cm == createConfigMap(containerName, container.Environment)
          secret == createSecret(containerName, container.Environment)
          svc == IF Len(container.PortMappings) > 0
                 THEN createService(containerName, container.PortMappings)
                 ELSE <<>>
      IN  [containers |-> Append(acc.containers, c),
           containerResources |-> Append(acc.containerResources, resources),
           configMaps |-> acc.configMaps \o cm,
           secrets |-> acc.secrets \o secret,
           services |-> acc.services \o svc]

\* one iteration of the container loop (lines 770-844) on the accumulators
convertContainer(container, acc) ==
    IF IsNil(container.Name) \/ Deref(container.Name) = <<>>
    THEN acc
    ELSE IF IsNil(container.Image) \/ Deref(container.Image) = <<>>
    THEN acc
    ELSE
      LET containerName == Deref(container.Name)
          ports == convertPorts(container.PortMappings)
          envVars == convertEnvVars(container.Environment)
          cpuQty == cpuToQuantity(Ptr(container.Cpu))
          memoryQty == memoryToQuantity(container.Memory)
          c == [Name |-> containerName,
                Image |-> Deref(container.Image),
                Ports |-> ports,
                Env |-> envVars,
                Resources |-> [Limits |-> [cpu |-> cpuQty, memory |-> memoryQty],
                               Requests |-> [cpu |-> cpuQty, memory |-> memoryQty]]]
          resources == [Name |-> containerName,
                        CPU |-> <<QuantityString(cpuQty)>>,
                        Memory |-> <<QuantityString(memoryQty)>>,
                        Ports |-> [i \in 1..Len(ports) |-> ports[i].ContainerPort]]
          cm == createConfigMap(containerName, container.Environment)
          secret == createSecret(containerName, container.Environment)
          svc == IF Len(container.PortMappings) > 0
                 THEN createService(containerName, container.PortMappings)
                 ELSE <<>>
      IN  [containers |-> Append(acc.containers, c),
           containerResources |-> Append(acc.containerResources, resources),
           configMaps |-> acc.configMaps \o cm,
           secrets |-> acc.secrets \o secret,
           services |-> acc.services \o svc]

\* a loop that goes through the container definitions from the last to the first
RECURSIVE convertContainersBackwards(_, _)
convertContainersBackwards(containerDefinitions, acc) ==
    IF containerDefinitions = <<>> THEN acc
    ELSE convertContainer(Head(containerDefinitions),
                          convertContainersBackwards(Tail(containerDefinitions), acc))

RECURSIVE convertContainers(_, _)
convertContainers(containerDefinitions, acc) ==
    IF containerDefinitions = <<>> THEN acc
    ELSE convertContainers(Tail(containerDefinitions),
                           convertContainer(Head(containerDefinitions), acc))

\* an assembler that leaves the ServiceAccount out of the PodSpec
convertTaskDefToK8sUnattached(taskDef) ==
    IF Len(taskDef.ContainerDefinitions) = 0
    THEN [manifests |-> EmptyManifests, err |-> ErrNoContainerDefinitions]
    ELSE
      LET acc == convertContainers(taskDef.ContainerDefinitions,
                   [containers |-> <<>>, containerResources |-> <<>>,
                    configMaps |-> <<>>, secrets |-> <<>>, services |-> <<>>])
          serviceAccount == createServiceAccount(<<>>, taskDef.TaskRoleArn,
                                                 taskDef.ExecutionRoleArn)
          podSpec == [Containers |-> acc.containers,
                      ServiceAccountName |-> <<>>]
      IN  IF Len(acc.containers) = 0
          THEN [manifests |-> EmptyManifests, err |-> ErrNoValidContainers]
          ELSE [manifests |-> [Deployment |-> Ptr(podSpec),
                               ConfigMaps |-> acc.configMaps,
                               Secrets |-> acc.secrets,
                               Services |-> acc.services,
                               ServiceAccount |-> serviceAccount,
                               Containers |-> acc.containerResources],
                err |-> NoError]

\* returns the pair (K8sManifests, error)
convertTaskDefToK8s(taskDef) ==
    IF Len(taskDef.ContainerDefinitions) = 0
    THEN [manifests |-> EmptyManifests, err |-> ErrNoContainerDefinitions]
    ELSE
      LET acc == convertContainers(taskDef.ContainerDefinitions,
                   [containers |-> <<>>, containerResources |-> <<>>,
                    configMaps |-> <<>>, secrets |-> <<>>, services |-> <<>>])
          serviceAccount == createServiceAccount(<<>>, taskDef.TaskRoleArn,
                                                 taskDef.ExecutionRoleArn)
          podSpec == [Containers |-> acc.containers,
                      ServiceAccountName |-> IF ~IsNil(serviceAccount)
                                             THEN Deref(serviceAccount).Name
                                             ELSE <<>>]
      IN  IF Len(acc.containers) = 0
          THEN [manifests |-> EmptyManifests, err |-> ErrNoValidContainers]
          ELSE [manifests |-> [Deployment |-> Ptr(podSpec),
                               ConfigMaps |-> acc.configMaps,
                               Secrets |-> acc.secrets,
                               Services |-> acc.services,
                               ServiceAccount |-> serviceAccount,
                               Containers |-> acc.containerResources],
                err |-> NoError]

-----------------------------------------------------------------------------
(* TaskDefInfo, the unit handed to the packagers *)

\* ports of one container as convertTaskDefToInfo collects them (lines 1193-1198)
RECURSIVE infoPorts(_)
infoPorts(portMappings) ==
    IF portMappings = <<>> THEN <<>>
    ELSE IF ~IsNil(Head(portMappings).ContainerPort)
         THEN <<Deref(Head(portMappings).ContainerPort)>> \o infoPorts(Tail(portMappings))
         ELSE infoPorts(Tail(portMappings))

\* environment of one container as convertTaskDefToInfo collects it (lines 1201-1206)
RECURSIVE infoEnvVars(_, _)
infoEnvVars(environment, envVars) ==
    IF environment = <<>> THEN envVars
    ELSE LET env == Head(environment)
         IN  IF ~IsNil(env.Name) /\ ~IsNil(env.Value)
             THEN infoEnvVars(Tail(environment),
                              MapPut(envVars, Deref(env.Name), Deref(env.Value)))
             ELSE infoEnvVars(Tail(environment), envVars)

RECURSIVE infoContainers(_)
infoContainers(containerDefinitions) ==
    IF containerDefinitions = <<>> THEN <<>>
    ELSE LET container == Head(containerDefinitions)
         IN  IF IsNil(container.Name) \/ Deref(container.Name) = <<>>
             THEN infoContainers(Tail(containerDefinitions))
             ELSE <<[Name |-> Deref(container.Name),
                     Image |-> IF ~IsNil(container.Image) THEN Deref(container.Image) ELSE <<>>,
                     CPU |-> IF container.Cpu > 0
                             THEN <<QuantityString(cpuToQuantity(Ptr(container.Cpu)))>>
                             ELSE <<>>,
                     Memory |-> IF ~IsNil(container.Memory) /\ Deref(container.Memory) > 0
                                THEN <<QuantityString(memoryToQuantity(container.Memory))>>
                                ELSE <<>>,
                     Ports |-> infoPorts(container.PortMappings),
                     EnvVars |-> infoEnvVars(container.Environment, EmptyMap)]>>
                    \o infoContainers(Tail(containerDefinitions))

\* taskDef is never nil where runEcs2K8s calls it (line 245), so no error
convertTaskDefToInfo(taskDef, taskDefName) ==
    [Name |-> taskDefName,
     Image |-> IF Len(taskDef.ContainerDefinitions) > 0
                  /\ ~IsNil(taskDef.ContainerDefinitions[1].Image)
               THEN Deref(taskDef.ContainerDefinitions[1].Image)
               ELSE <<>>,
     Containers |-> infoContainers(taskDef.ContainerDefinitions),
     Manifests |-> EmptyManifests,
     ExecutionRoleArn |-> IF ~IsNil(taskDef.ExecutionRoleArn)
                          THEN Deref(taskDef.ExecutionRoleArn) ELSE <<>>,
     TaskRoleArn |-> IF ~IsNil(taskDef.TaskRoleArn)
                     THEN Deref(taskDef.TaskRoleArn) ELSE <<>>]

-----------------------------------------------------------------------------
(* Helm Packager: the values model *)

\* the orders in which a range over a Go map can visit a set of keys
Perms(S) ==
    { f \in [1..Cardinality(S) -> S] : \A i, j \in 1..Cardinality(S) : i # j => f[i] # f[j] }

\* the sequences whose i-th element is drawn from the i-th set
SeqProduct(sets) ==
    { f \in [1..Len(sets) -> UNION Range(sets)] : \A i \in 1..Len(sets) : f[i] \in sets[i] }

\* the env lists lines 156-163 can build from one container's EnvVars map
helmEnvLists(envVars) ==
    { [i \in 1..Len(keys) |-> [name |-> keys[i], value |-> envVars[keys[i]]]] :
        keys \in Perms(DOMAIN envVars) }

\* the containerConfig maps lines 136-164 can build for one container
helmContainerConfigs(container) ==
    { [name |-> container.Name,
       image |-> container.Image,
       resources |-> [limits |-> [cpu |-> container.CPU, memory |-> container.Memory],
                      requests |-> [cpu |-> container.CPU, memory |-> container.Memory]],
       ports |-> IF Len(container.Ports) > 0 THEN Ptr(container.Ports) ELSE <<>>,
       env |-> IF Cardinality(DOMAIN container.EnvVars) > 0 THEN Ptr(envList) ELSE <<>>] :
        envList \in helmEnvLists(container.EnvVars) }

\* the serviceConfig maps lines 170-205 can build for one task definition;
\* a key that is not set is <<>>
helmServiceConfigs(taskDefInfo) ==
    LET iam == IF taskDefInfo.TaskRoleArn # <<>> THEN Ptr(taskDefInfo.TaskRoleArn)
               ELSE IF taskDefInfo.ExecutionRoleArn # <<>>
                    THEN Ptr(taskDefInfo.ExecutionRoleArn)
                    ELSE <<>>
        svcs == taskDefInfo.Manifests.Services
    IN  { [namespace |-> "default",
           replicas |-> 1,
           containers |-> containers,
           iamRoleArn |-> iam,
           serviceAccount |-> IF ~IsNil(iam)
                              THEN Ptr([annotations |->
                                          [x \in {RoleArnAnnotation} |-> Deref(iam)]])
                              ELSE <<>>,
           service |-> IF Len(svcs) > 0
                       THEN Ptr([name |-> svcs[1].Name,
                                 type |-> svcs[1].Type,
                                 port |-> IF Len(svcs[1].Ports) > 0
                                          THEN Ptr(svcs[1].Ports[1].Port) ELSE <<>>])
                       ELSE <<>>] :
            containers \in SeqProduct([i \in 1..Len(taskDefInfo.Containers) |->
                                         helmContainerConfigs(taskDefInfo.Containers[i])]) }

\* services[serviceName] = serviceConfig, in the order of infos (line 207)
RECURSIVE helmServices(_, _, _)
helmServices(infos, configs, services) ==
    IF infos = <<>> THEN services
    ELSE helmServices(Tail(infos), Tail(configs),
                      MapPut(services, Head(infos).Name, Head(configs)))

\* the values maps createCombinedValuesYAML can marshal into values.yaml
createCombinedValuesYAML(infos) ==
    { [defaultNamespace |-> "default",
       defaultReplicas |-> 1,
       services |-> helmServices(infos, configs, EmptyMap)] :
        configs \in SeqProduct([i \in 1..Len(infos) |->
                                  helmServiceConfigs(infos[i])]) }

\* the ServiceAccount name of the serviceaccount and deployment templates
\* (lines 271 and 389): {{ $serviceName }}-sa
helmServiceAccountName(serviceName) == serviceName \o <<"-sa">>

-----------------------------------------------------------------------------
(* Paths (path/filepath on a slash-separated file system) *)

\* the components of a path between its separators
RECURSIVE SplitPath(_, _, _)
SplitPath(path, current, done) ==
    IF path = <<>> THEN Append(done, current)
    ELSE IF Head(path) = "/"
         THEN SplitPath(Tail(path), <<>>, Append(done, current))
         ELSE SplitPath(Tail(path), Append(current, Head(path)), done)

IsAbs(path) == path # <<>> /\ Head(path) = "/"

\* the component stack of filepath.Clean
RECURSIVE CleanComponents(_, _, _)
CleanComponents(comps, stack, rooted) ==
    IF comps = <<>> THEN stack
    ELSE LET c == Head(comps)
         IN  IF c = <<>> \/ c = <<".">>
             THEN CleanComponents(Tail(comps), stack, rooted)
             ELSE IF c = <<".", ".">>
                  THEN IF stack # <<>> /\ stack[Len(stack)] # <<".", ".">>
                       THEN CleanComponents(Tail(comps), SubSeq(stack, 1, Len(stack) - 1), rooted)
                       ELSE IF rooted
                            THEN CleanComponents(Tail(comps), stack, rooted)
                            ELSE CleanComponents(Tail(comps), Append(stack, c), rooted)
                  ELSE CleanComponents(Tail(comps), Append(stack, c), rooted)

RECURSIVE JoinComponents(_)
JoinComponents(comps) ==
    IF comps = <<>> THEN <<>>
    ELSE IF Len(comps) = 1 THEN Head(comps)
    ELSE Head(comps) \o <<"/">> \o JoinComponents(Tail(comps))

\* filepath.Clean
Clean(path) ==
    LET comps == CleanComponents(SplitPath(path, <<>>, <<>>), <<>>, IsAbs(path))
    IN  IF IsAbs(path) THEN <<"/">> \o JoinComponents(comps)
        ELSE IF comps = <<>> THEN <<".">>
        ELSE JoinComponents(comps)

\* filepath.Join of two elements
Join(a, b) ==
    IF a = <<>> /\ b = <<>> THEN <<>>
    ELSE IF a = <<>> THEN Clean(b)
    ELSE IF b = <<>> THEN Clean(a)
    ELSE Clean(a \o <<"/">> \o b)

\* the working directory of the process
Cwd == <<"/", "w">>

\* filepath.Abs
Abs(path) == IF IsAbs(path) THEN Clean(path) ELSE Join(Cwd, path)

-----------------------------------------------------------------------------
(* Manifest Writer *)

invalidChars == <<"/", "\\", ":", "*", "?", "\"", "<", ">", "|">>

\* a filename check that lets the path separator through
isValidFilenameWithSlash(name) ==
    IF name = <<>> THEN FALSE
    ELSE \A i \in 2..Len(invalidChars) : ~ContainsChar(name, invalidChars[i])

isValidFilename(name) ==
    IF name = <<>> THEN FALSE
    ELSE \A i \in 1..Len(invalidChars) : ~ContainsChar(name, invalidChars[i])

\* one entry of "containers" (lines 88-151)
serializeContainer(container) ==
    [name |-> container.Name,
     image |-> container.Image,
     ports |-> IF Len(container.Ports) > 0
               THEN Ptr([i \in 1..Len(container.Ports) |->
                           [containerPort |-> container.Ports[i].ContainerPort,
                            protocol |-> container.Ports[i].Protocol]])
               ELSE <<>>,
     env |-> IF Len(container.Env) > 0
             THEN Ptr([i \in 1..Len(container.Env) |->
                         [name |-> container.Env[i].Name,
                          value |-> IF container.Env[i].Value # <<>>
                                    THEN Ptr(container.Env[i].Value) ELSE <<>>]])
             ELSE <<>>,
     resources |->
        Ptr([limits |-> [cpu |-> QuantityString(container.Resources.Limits.cpu),
                         memory |-> QuantityString(container.Resources.Limits.memory)],
             requests |-> [cpu |-> QuantityString(container.Resources.Requests.cpu),
                           memory |-> QuantityString(container.Resources.Requests.memory)]])]

\* the map serializePodSpec builds; a key that is not set is <<>>
serializePodSpec(podSpec) ==
    IF IsNil(podSpec)
    THEN [containers |-> <<>>]
    ELSE [containers |->
            IF Len(Deref(podSpec).Containers) > 0
            THEN Ptr([i \in 1..Len(Deref(podSpec).Containers) |->
                        serializeContainer(Deref(podSpec).Containers[i])])
            ELSE <<>>]

\* the Deployment map of lines 222-245
deploymentManifest(taskDefName, podSpec) ==
    [apiVersion |-> "apps/v1",
     kind |-> "Deployment",
     metadata |-> [name |-> taskDefName, namespace |-> <<"default">>],
     spec |-> [replicas |-> 1,
               selector |-> [matchLabels |-> [app |-> taskDefName]],
               template |-> [metadata |-> [labels |-> [app |-> taskDefName]],
                             spec |-> serializePodSpec(podSpec)]]]

Itoa(i) == ToString(i)

FileName(taskDefName, kind, suffix) ==
    taskDefName \o <<kind>> \o suffix \o <<".", "yaml">>

\* a files map that gives every ConfigMap the name of the single one
RECURSIVE configMapFilesUnindexed(_, _, _, _)
configMapFilesUnindexed(taskDefName, configMaps, i, files) ==
    IF i > Len(configMaps) THEN files
    ELSE configMapFilesUnindexed(taskDefName, configMaps, i + 1,
           MapPut(files, FileName(taskDefName, "-configmap", <<>>), configMaps[i]))

\* files[...] = cm for every ConfigMap, in index order (lines 252-265)
RECURSIVE configMapFiles(_, _, _, _)
configMapFiles(taskDefName, configMaps, i, files) ==
    IF i > Len(configMaps) THEN files
    ELSE configMapFiles(taskDefName, configMaps, i + 1,
           MapPut(files,
                  IF Len(configMaps) = 1
                  THEN FileName(taskDefName, "-configmap", <<>>)
                  ELSE FileName(taskDefName, "-configmap", <<"-", Itoa(i - 1)>>),
                  configMaps[i]))

\* files[...] = svc for every Service, in index order (lines 268-281)
RECURSIVE serviceFiles(_, _, _, _)
serviceFiles(taskDefName, services, i, files) ==
    IF i > Len(services) THEN files
    ELSE serviceFiles(taskDefName, services, i + 1,
           MapPut(files,
                  IF Len(services) = 1
                  THEN FileName(taskDefName, "-service", <<>>)
                  ELSE FileName(taskDefName, "-service", <<"-">> \o services[i].Name),
                  services[i]))

\* files[...] = secret for every Secret, in index order (lines 284-297)
RECURSIVE secretFiles(_, _, _, _)
secretFiles(taskDefName, secrets, i, files) ==
    IF i > Len(secrets) THEN files
    ELSE secretFiles(taskDefName, secrets, i + 1,
           MapPut(files,
                  IF Len(secrets) = 1
                  THEN FileName(taskDefName, "-secret", <<>>)
                  ELSE FileName(taskDefName, "-secret", <<"-", Itoa(i - 1)>>),
                  secrets[i]))

\* the files map of lines 215-297: file name -> content to marshal
manifestFiles(taskDefName, manifests) ==
    LET f0 == IF ~IsNil(manifests.Deployment)
              THEN MapPut(EmptyMap, FileName(taskDefName, "-deployment", <<>>),
                          deploymentManifest(taskDefName, manifests.Deployment))
              ELSE EmptyMap
        f1 == configMapFiles(taskDefName, manifests.ConfigMaps, 1, f0)
        f2 == serviceFiles(taskDefName, manifests.Services, 1, f1)
    IN  secretFiles(taskDefName, manifests.Secrets, 1, f2)

\* a marshaller whose output depends on how many files were written before
yamlMarshalCounting(content) == [written |-> Cardinality(wWritten)]

\* yaml.Marshal: a map keeps its keys; a corev1 struct carries json tags only,
\* so its fields come out under their lower-cased Go names, the embedded
\* TypeMeta and ObjectMeta as nested maps
yamlMarshal(content) ==
    IF "GoType" \notin DOMAIN content THEN content
    ELSE IF content.GoType = "ConfigMap"
    THEN [typemeta |-> [kind |-> <<>>, apiversion |-> <<>>],
          objectmeta |-> [name |-> content.Name, namespace |-> <<>>],
          data |-> content.Data]
    ELSE IF content.GoType = "Secret"
    THEN [typemeta |-> [kind |-> <<>>, apiversion |-> <<>>],
          objectmeta |-> [name |-> content.Name, namespace |-> <<>>],
          stringdata |-> content.StringData,
          type |-> content.Type]
    ELSE IF content.GoType = "Service"
    THEN [typemeta |-> [kind |-> <<>>, apiversion |-> <<>>],
          objectmeta |-> [name |-> content.Name, namespace |-> <<>>],
          spec |-> [ports |-> [i \in 1..Len(content.Ports) |->
                                 [port |-> content.Ports[i].Port,
                                  targetport |-> [type |-> 0,
                                                  intval |-> content.Ports[i].TargetPort,
                                                  strval |-> <<>>],
                                  protocol |-> content.Ports[i].Protocol]],
                    selector |-> content.Selector,
                    type |-> content.Type]]
    ELSE [typemeta |-> [kind |-> <<>>, apiversion |-> <<>>],
          objectmeta |-> [name |-> content.Name, namespace |-> content.Namespace,
                          annotations |-> content.Annotations]]

MapRemove(m, k) == [x \in (DOMAIN m) \ {k} |-> m[x]]

ErrDirEmpty == "output directory path cannot be empty"

ErrDirNotExist == "output directory does not exist"

ErrDirStat == "failed to stat output directory"

ErrNotDir == "output path is not a directory"

ErrNotWritable == "output directory is not writable"

ErrNameEmpty == "task definition name cannot be empty"

ErrNameInvalid == "invalid task definition name for filename"

ErrFilenameInvalid == "constructed filename contains invalid characters"

ErrOutsideDir == "file path is outside output directory"

ErrWriteFile == "failed to write file"

\* a precondition check that leaves the characters of the task name unchecked
writePreconditionErrorAnyName(dir, taskDefName) ==
    IF dir.path = <<>> THEN ErrDirEmpty
    ELSE IF dir.kind = "missing" THEN ErrDirNotExist
    ELSE IF dir.kind = "staterr" THEN ErrDirStat
    ELSE IF dir.kind # "dir" THEN ErrNotDir
    ELSE IF ~dir.writable THEN ErrNotWritable
    ELSE IF taskDefName = <<>> THEN ErrNameEmpty
    ELSE NoError

\* the error of the precondition checks of lines 178-213, NoError when all hold
writePreconditionError(dir, taskDefName) ==
    IF dir.path = <<>> THEN ErrDirEmpty
    ELSE IF dir.kind = "missing" THEN ErrDirNotExist
    ELSE IF dir.kind = "staterr" THEN ErrDirStat
    ELSE IF dir.kind # "dir" THEN ErrNotDir
    ELSE IF ~dir.writable THEN ErrNotWritable
    ELSE IF taskDefName = <<>> THEN ErrNameEmpty
    ELSE IF ~isValidFilename(taskDefName) THEN ErrNameInvalid
    ELSE NoError

\* the check of lines 306-330 on one file name, NoError when the file may be written
writePathError(outputDir, filename) ==
    IF ~isValidFilename(filename) THEN ErrFilenameInvalid
    ELSE IF ~HasPrefix(Abs(Join(outputDir, filename)), Abs(outputDir)) THEN ErrOutsideDir
    ELSE NoError

-----------------------------------------------------------------------------
(* Kustomize Packager *)

\* strings.Contains
Contains(str, substr) ==
    \E i \in 0..(Len(str) - Len(substr)) : SubSeq(str, i + 1, i + Len(substr)) = substr

\* filepath.Join(outputDir, "kustomize", clusterName) after lines 35-37
kustomizeRoot(clusterName, outputDir) ==
    LET dir == IF ~Contains(outputDir, clusterName)
               THEN Join(outputDir, clusterName)
               ELSE outputDir
    IN  Join(Join(dir, <<"kustomize">>), clusterName)

\* kustomizeBasePath (line 39)
kustomizeBasePath(clusterName, outputDir) ==
    Join(kustomizeRoot(clusterName, outputDir), <<"base">>)

\* the five subdirectories of base (lines 88-94)
resourceDirs == {"deployments", "services", "configmaps", "secrets", "serviceaccounts"}

\* the overlays and their namespaces (lines 63-67)
overlayNamespaces ==
    [o \in {"dev", "staging", "prod"} |->
       IF o = "dev" THEN "development" ELSE IF o = "staging" THEN "staging" ELSE "production"]

\* the directory part of a cleaned absolute path
Dir(path) ==
    LET comps == SplitPath(path, <<>>, <<>>)
    IN  Clean(<<"/">> \o JoinComponents(SubSeq(comps, 1, Len(comps) - 1)))

\* the directories that exist once the MkdirAll calls of lines 50-55 and
\* 96-100 have succeeded: the base path with its ancestors, its five
\* subdirectories, and the three overlay directories
kustomizeDirs(basePath) ==
    LET comps == SplitPath(basePath, <<>>, <<>>)
        root == Dir(basePath)
    IN  { Clean(<<"/">> \o JoinComponents(SubSeq(comps, 1, n))) : n \in 1..Len(comps) }
        \cup { Join(basePath, <<d>>) : d \in resourceDirs }
        \cup { Join(root, <<"overlays">>) }
        \cup { Join(Join(root, <<"overlays">>), <<o>>) : o \in DOMAIN overlayNamespaces }

\* the Deployment map of generateBaseDeployment
generateBaseDeployment(taskName, taskDefInfo) ==
    [apiVersion |-> "apps/v1",
     kind |-> "Deployment",
     metadata |-> [name |-> taskName, labels |-> [app |-> taskName]],
     spec |-> [replicas |-> 1,
               selector |-> [matchLabels |-> [app |-> taskName]],
               template |-> [metadata |-> [labels |-> [app |-> taskName]],
                             spec |-> serializePodSpec(taskDefInfo.Manifests.Deployment)]]]

\* one os.WriteFile of the base loop: the resource path relative to base,
\* the value marshalled, and whether success appends the path to resourceList
baseWrite(dir, name, content, listed) ==
    [resource |-> <<dir, "/">> \o name, content |-> content, listed |-> listed]

\* the Service writes of one task (lines 120-133)
baseServiceWrites(services) ==
    [i \in 1..Len(services) |->
       baseWrite("services", FileName(services[i].Name, "-service", <<>>),
                 services[i], i - 1 = 0)]

\* the ConfigMap writes (lines 136-151) and the Secret writes (lines 153-168)
baseIndexedWrites(dir, kind, taskName, resources) ==
    [i \in 1..Len(resources) |->
       baseWrite(dir, FileName(taskName, kind, <<"-", Itoa(i - 1)>>), resources[i], TRUE)]

\* the writes of one pass of the loop of lines 105-181, in program order
baseTaskWrites(taskDefInfo) ==
    LET taskName == taskDefInfo.Name
        m == taskDefInfo.Manifests
    IN  <<baseWrite("deployments", FileName(taskName, "-deployment", <<>>),
                    generateBaseDeployment(taskName, taskDefInfo), TRUE)>>
        \o baseServiceWrites(m.Services)
        \o baseIndexedWrites("configmaps", "-configmap", taskName, m.ConfigMaps)
        \o baseIndexedWrites("secrets", "-secret", taskName, m.Secrets)
        \o (IF ~IsNil(m.ServiceAccount)
            THEN <<baseWrite("serviceaccounts", FileName(taskName, "-serviceaccount", <<>>),
                             Deref(m.ServiceAccount), TRUE)>>
            ELSE <<>>)

RECURSIVE baseWrites(_)
baseWrites(infos) ==
    IF infos = <<>> THEN <<>>
    ELSE baseTaskWrites(Head(infos)) \o baseWrites(Tail(infos))

\* the loop of lines 105-181 over the writes from the k-th on; the write
\* numbered lost fails, and so does a write into a directory that does not
\* exist; a failed write is logged and skipped
RECURSIVE applyBaseWrites(_, _, _, _, _)
applyBaseWrites(basePath, writes, k, lost, acc) ==
    IF k > Len(writes) THEN acc
    ELSE LET w == writes[k]
             file == Join(basePath, w.resource)
         IN  IF k = lost \/ Dir(file) \notin kustomizeDirs(basePath)
             THEN applyBaseWrites(basePath, writes, k + 1, lost,
                                  [acc EXCEPT !.warned = TRUE])
             ELSE applyBaseWrites(basePath, writes, k + 1, lost,
                    [acc EXCEPT !.files = MapPut(acc.files, file, yamlMarshal(w.content)),
                                !.resources = IF w.listed
                                              THEN Append(acc.resources, w.resource)
                                              ELSE acc.resources])

\* createBaseKustomization once its directories exist: the files it leaves
\* in fs, base/kustomization.yaml among them, and whether a warning was logged
createBaseKustomization(basePath, infos, lost, fs) ==
    LET r == applyBaseWrites(basePath, baseWrites(infos), 1, lost,
                             [files |-> fs, resources |-> <<>>, warned |-> FALSE])
        baseKustomize == [apiVersion |-> "kustomize.config.k8s.io/v1beta1",
                          kind |-> "Kustomization",
                          metadata |-> [name |-> "base"],
                          resources |-> r.resources,
                          commonLabels |-> [x \in {"managed-by"} |-> "ecs2k8s"]]
    IN  [files |-> MapPut(r.files,
                          Join(basePath, <<"kustomization", ".", "yaml">>), baseKustomize),
         warned |-> r.warned]

\* the files of one overlay (createOverlayKustomization)
RECURSIVE overlayPatches(_, _, _, _, _)
overlayPatches(overlayPath, overlayName, namespace, infos, fs) ==
    IF infos = <<>> THEN fs
    ELSE overlayPatches(overlayPath, overlayName, namespace, Tail(infos),
           MapPut(fs,
                  Join(Join(overlayPath, <<"patches">>),
                       FileName(Head(infos).Name, "-namespace-patch", <<>>)),
                  [apiVersion |-> "apps/v1",
                   kind |-> "Deployment",
                   metadata |-> [name |-> Head(infos).Name, namespace |-> namespace],
                   spec |-> [template |->
                               [metadata |-> [labels |-> [environment |-> overlayName]]]]]))

createOverlayKustomization(overlayPath, overlayName, namespace, infos, fs) ==
    MapPut(overlayPatches(overlayPath, overlayName, namespace, infos, fs),
           Join(overlayPath, <<"kustomization", ".", "yaml">>),
           [apiVersion |-> "kustomize.config.k8s.io/v1beta1",
            kind |-> "Kustomization",
            metadata |-> [name |-> overlayName],
            bases |-> <<"../../base">>,
            namespace |-> namespace,
            patches |-> [i \in 1..Len(infos) |->
                           [target |-> [kind |-> "Deployment", name |-> infos[i].Name],
                            path |-> <<"patches", "/">>
                                     \o FileName(infos[i].Name, "-namespace-patch", <<>>)]],
            commonLabels |-> [environment |-> overlayName]])

\* createRootKustomization
createRootKustomization(rootPath, clusterName, fs) ==
    MapPut(fs, Join(rootPath, <<"kustomization", ".", "yaml">>),
           [apiVersion |-> "kustomize.config.k8s.io/v1beta1",
            kind |-> "Kustomization",
            metadata |-> [name |-> clusterName],
            commonLabels |-> [x \in {"cluster", "managed-by"} |->
                                IF x = "cluster" THEN clusterName ELSE <<"ecs2k8s">>]])

\* createKustomizeStructure when no directory and no kustomization.yaml
\* fails; the overlays write to distinct paths, so their order is immaterial
createKustomizeStructure(clusterName, infos, outputDir, lost, fs) ==
    LET root == kustomizeRoot(clusterName, outputDir)
        overlaysPath == Join(root, <<"overlays">>)
        base == createBaseKustomization(kustomizeBasePath(clusterName, outputDir),
                                        infos, lost, fs)
        dev == createOverlayKustomization(Join(overlaysPath, <<"dev">>), "dev",
                                          overlayNamespaces["dev"], infos, base.files)
        staging == createOverlayKustomization(Join(overlaysPath, <<"staging">>), "staging",
                                              overlayNamespaces["staging"], infos, dev)
        prod == createOverlayKustomization(Join(overlaysPath, <<"prod">>), "prod",
                                           overlayNamespaces["prod"], infos, staging)
    IN  [files |-> createRootKustomization(root, clusterName, prod),
         warned |-> base.warned]

-----------------------------------------------------------------------------
(* Task definition names (utils.go) *)

NameChar(c) == c # ":" /\ c # "/"

\* the longest run of symbols other than ":" and "/" from position i on
RECURSIVE NameRun(_, _)
NameRun(str, i) ==
    IF i > Len(str) \/ ~NameChar(str[i]) THEN <<>>
    ELSE <<str[i]>> \o NameRun(str, i + 1)

\* where the regular expression task-definition/([^:/]+) matches
RegexMatches(arn) ==
    { i \in 1..Len(arn) :
        /\ arn[i] = "task-definition"
        /\ i + 2 <= Len(arn)
        /\ arn[i + 1] = "/"
        /\ NameChar(arn[i + 2]) }

Min(S) == CHOOSE x \in S : \A y \in S : x <= y

\* strings.Split(str, sep)[0]
RECURSIVE BeforeFirst(_, _)
BeforeFirst(str, sep) ==
    IF str = <<>> \/ Head(str) = sep THEN <<>>
    ELSE <<Head(str)>> \o BeforeFirst(Tail(str), sep)

extractTaskDefName(arn) ==
    IF arn = <<>> THEN <<>>
    ELSE IF RegexMatches(arn) # {}
         THEN NameRun(arn, Min(RegexMatches(arn)) + 2)
         ELSE LET parts == SplitPath(arn, <<>>, <<>>)
                  name == BeforeFirst(parts[Len(parts)], ":")
              IN  name

-----------------------------------------------------------------------------
(* SpecQty: the quantity mapper applied to int32 inputs *)

Int32Thresholds == {0, 100, 128, 256, 512, 1000, CpuCapMilli, 20000, MemCapMB, 300000}

Int32Samples ==
    (UNION { (t - QtyWindow)..(t + QtyWindow) : t \in Int32Thresholds })
      \cup { Int32Min + k : k \in 0..QtyWindow }
      \cup { Int32Max - k : k \in 0..QtyWindow }

OptInt32Samples == {<<>>} \cup { Ptr(n) : n \in Int32Samples }

InitQty ==
    /\ qCpu \in OptInt32Samples
    /\ qMem \in OptInt32Samples
    /\ qCpuOut = <<>>
    /\ qMemOut = <<>>

QtyIdle ==
    /\ qCpu = <<>>
    /\ qMem = <<>>
    /\ qCpuOut = <<>>
    /\ qMemOut = <<>>

ApplyCpuToQuantity ==
    /\ qCpuOut = <<>>
    /\ qCpuOut' = Ptr(cpuToQuantity(qCpu))
    /\ UNCHANGED <<qCpu, qMem, qMemOut>>
    /\ UNCHANGED convVars
    /\ UNCHANGED writeVars
    /\ UNCHANGED runVars

ApplyMemoryToQuantity ==
    /\ qMemOut = <<>>
    /\ qMemOut' = Ptr(memoryToQuantity(qMem))
    /\ UNCHANGED <<qCpu, qMem, qCpuOut>>
    /\ UNCHANGED convVars
    /\ UNCHANGED writeVars
    /\ UNCHANGED runVars

NextQty == ApplyCpuToQuantity \/ ApplyMemoryToQuantity

-----------------------------------------------------------------------------
(* Task definitions handed to the converter *)

SeqsUpTo(S, n) == UNION { [1..k -> S] : k \in 0..n }

StrWeb == <<"w","e","b">>

StrApi == <<"a","p","i">>

StrDb == <<"d","b">>

StrJob == <<"j","o","b">>

StrWebapp == <<"w","e","b","a","p","p">>

StrNginx == <<"n","g","i","n","x">>

StrLogLevel == <<"L","O","G","_","L","E","V","E","L">>

StrAwsAccessKeyId == <<"A","W","S","_","A","C","C","E","S","S","_","K","E","Y","_","I","D">>

StrToken == <<"T","o","k","e","n">>

StrMyKey == <<"M","Y","K","E","Y">>

StrTaskRole == <<"arn:aws:iam::1:role", "/", "task">>

StrExecRole == <<"arn:aws:iam::1:role", "/", "exec">>

KeyValuePair(name, value) == [Name |-> name, Value |-> value]

EnvPairs ==
    { KeyValuePair(<<>>, Ptr(<<"v">>)),
      KeyValuePair(Ptr(<<>>), Ptr(<<"v">>)),
      KeyValuePair(Ptr(StrLogLevel), <<>>),
      KeyValuePair(Ptr(StrLogLevel), Ptr(<<"info">>)),
      KeyValuePair(Ptr(StrLogLevel), Ptr(<<>>)),
      KeyValuePair(Ptr(StrMyKey), Ptr(<<"m">>)),
      KeyValuePair(Ptr(StrAwsAccessKeyId), Ptr(<<"xxx">>)),
      KeyValuePair(Ptr(StrToken), Ptr(<<"t0p">>)) }

PortMapping(port) == [ContainerPort |-> port]

PortValues == {<<>>, Ptr(-1), Ptr(0), Ptr(1), Ptr(80), Ptr(65535), Ptr(65536)}

ContainerDefinition(name, image, cpu, memory, ports, env) ==
    [Name |-> name, Image |-> image, Cpu |-> cpu, Memory |-> memory,
     PortMappings |-> ports, Environment |-> env]

BaseContainer ==
    ContainerDefinition(Ptr(StrWeb), Ptr(StrNginx), 512, Ptr(256), <<>>, <<>>)

\* the README's example container
ExampleContainer ==
    ContainerDefinition(Ptr(StrWeb), Ptr(StrNginx), 512, Ptr(256),
                        <<PortMapping(Ptr(80))>>,
                        <<KeyValuePair(Ptr(StrLogLevel), Ptr(<<"info">>)),
                          KeyValuePair(Ptr(StrAwsAccessKeyId), Ptr(<<"xxx">>))>>)

\* containers that vary one field of the base container each
SingleContainers ==
    { [BaseContainer EXCEPT !.Name = n, !.Image = i] :
        n \in {<<>>, Ptr(<<>>), Ptr(StrWeb)}, i \in {<<>>, Ptr(<<>>), Ptr(StrNginx)} }
    \cup { [BaseContainer EXCEPT !.Environment = e] :
             e \in SeqsUpTo(EnvPairs, MaxEnv) }
    \cup { [BaseContainer EXCEPT !.PortMappings = [i \in 1..Len(p) |-> PortMapping(p[i])]] :
             p \in SeqsUpTo(PortValues, MaxPorts) }
    \cup { [BaseContainer EXCEPT !.Cpu = c, !.Memory = m] :
             c \in {-1, 0, 1, 512, 1000, 16000, 16001},
             m \in {<<>>, Ptr(0), Ptr(256), Ptr(1024), Ptr(262145)} }

ApiContainer ==
    ContainerDefinition(Ptr(StrApi), Ptr(StrNginx), 0, <<>>,
                        <<PortMapping(Ptr(65536)), PortMapping(Ptr(8080))>>,
                        <<KeyValuePair(Ptr(StrToken), Ptr(<<"t0p">>))>>)

\* containers of the task definitions that hold several
MultiContainers ==
    { ExampleContainer,
      ApiContainer,
      ContainerDefinition(<<>>, Ptr(StrNginx), 256, Ptr(128),
                          <<PortMapping(Ptr(443))>>,
                          <<KeyValuePair(Ptr(StrAwsAccessKeyId), Ptr(<<"yyy">>))>>),
      ContainerDefinition(Ptr(StrDb), Ptr(<<>>), 256, Ptr(128),
                          <<PortMapping(Ptr(5432))>>,
                          <<KeyValuePair(Ptr(StrMyKey), Ptr(<<"m">>))>>),
      ContainerDefinition(Ptr(StrJob), Ptr(StrNginx), 20000, Ptr(300000),
                          <<PortMapping(Ptr(0))>>, <<>>) }

TaskDefinition(containers, taskRole, executionRole) ==
    [ContainerDefinitions |-> containers, TaskRoleArn |-> taskRole,
     ExecutionRoleArn |-> executionRole]

TaskDefs ==
    { TaskDefinition(<<>>, <<>>, <<>>) }
    \cup { TaskDefinition(<<c>>, <<>>, <<>>) : c \in SingleContainers }
    \cup { TaskDefinition(cs, <<>>, <<>>) :
             cs \in { s \in SeqsUpTo(MultiContainers, MaxContainers) : Len(s) >= 2 } }
    \cup { TaskDefinition(<<ExampleContainer>>, t, e) :
             t \in {<<>>, Ptr(<<>>), Ptr(StrTaskRole)},
             e \in {<<>>, Ptr(<<>>), Ptr(StrExecRole)} }

-----------------------------------------------------------------------------
(* SpecConv: the body of the task loop of runEcs2K8s for one task           *)
(* definition (lines 259-277), followed by the Helm values of that task    *)

InitConv ==
    /\ cTaskDef \in TaskDefs
    /\ cPc = "toInfo"
    /\ cInfo = <<>>
    /\ cManifests = EmptyManifests
    /\ cErr = NoError
    /\ cValues = <<>>

ConvIdle ==
    /\ cTaskDef = TaskDefinition(<<>>, <<>>, <<>>)
    /\ cPc = "idle"
    /\ cInfo = <<>>
    /\ cManifests = EmptyManifests
    /\ cErr = NoError
    /\ cValues = <<>>

\* line 260-267
ConvertToInfo ==
    /\ cPc = "toInfo"
    /\ cInfo' = Ptr(convertTaskDefToInfo(cTaskDef, StrWebapp))
    /\ cPc' = "toK8s"
    /\ UNCHANGED <<cTaskDef, cManifests, cErr, cValues>>
    /\ UNCHANGED qtyVars
    /\ UNCHANGED writeVars
    /\ UNCHANGED runVars

\* lines 270-277
ConvertToK8s ==
    /\ cPc = "toK8s"
    /\ LET r == convertTaskDefToK8s(cTaskDef)
       IN  /\ cManifests' = r.manifests
           /\ cErr' = r.err
           /\ IF r.err # NoError
              THEN /\ cPc' = "failed"
                   /\ cInfo' = cInfo
              ELSE /\ cPc' = "converted"
                   /\ cInfo' = Ptr([Deref(cInfo) EXCEPT !.Manifests = r.manifests])
    /\ UNCHANGED <<cTaskDef, cValues>>
    /\ UNCHANGED qtyVars
    /\ UNCHANGED writeVars
    /\ UNCHANGED runVars

\* createCombinedValuesYAML over the converted task
BuildHelmValues ==
    /\ cPc = "converted"
    /\ \E values \in createCombinedValuesYAML(<<Deref(cInfo)>>) :
          cValues' = Ptr(values)
    /\ cPc' = "packaged"
    /\ UNCHANGED <<cTaskDef, cInfo, cManifests, cErr>>
    /\ UNCHANGED qtyVars
    /\ UNCHANGED writeVars
    /\ UNCHANGED runVars

NextConv == ConvertToInfo \/ ConvertToK8s \/ BuildHelmValues

-----------------------------------------------------------------------------
(* SpecWrite: one call of writeManifests *)

\* the selected cluster; runEcs2K8s writes to filepath.Join(cwd, selectedCluster)
StrCluster == <<"o">>

StrOutDir == Join(Cwd, StrCluster)

StrSlashName == <<"a", "/", "b">>

\* what the call can find at outputDir
DirStates ==
    { [path |-> <<>>, kind |-> "dir", writable |-> TRUE],
      [path |-> StrOutDir, kind |-> "missing", writable |-> FALSE],
      [path |-> StrOutDir, kind |-> "staterr", writable |-> FALSE],
      [path |-> StrOutDir, kind |-> "file", writable |-> FALSE],
      [path |-> StrOutDir, kind |-> "dir", writable |-> FALSE],
      [path |-> StrOutDir, kind |-> "dir", writable |-> TRUE] }

WriteTaskNames ==
    { StrWebapp,
      <<>>,
      <<".", ".">>,
      <<".", ".", "/", "o", "x">>,
      <<"a", ":", "b">>,
      <<"a", "\\", "b">> }

WriteTaskDefs ==
    { TaskDefinition(<<ExampleContainer>>, <<>>, <<>>),
      TaskDefinition(<<ExampleContainer, ApiContainer>>, <<>>, <<>>),
      TaskDefinition(<<ExampleContainer,
                       [ApiContainer EXCEPT !.Name = Ptr(StrSlashName)]>>, <<>>, <<>>),
      TaskDefinition(<<ExampleContainer,
                       [ApiContainer EXCEPT
                          !.Environment = <<KeyValuePair(Ptr(StrLogLevel),
                                                         Ptr(<<"debug">>))>>]>>,
                     <<>>, <<>>) }

WriteManifestInputs ==
    { EmptyManifests } \cup { convertTaskDefToK8s(td).manifests : td \in WriteTaskDefs }

\* what the output directory holds before the call: nothing, or a file of
\* the user that happens to be named .write_test
DirContents(dir) ==
    IF dir.path # <<>> /\ dir.kind = "dir"
    THEN { EmptyMap,
           [path \in {Abs(Join(dir.path, <<".", "write_test">>))} |-> <<"mine">>] }
    ELSE { EmptyMap }

InitWrite ==
    /\ wDir \in DirStates
    /\ fsFiles \in DirContents(wDir)
    /\ wTaskName \in WriteTaskNames
    /\ wManifests \in WriteManifestInputs
    /\ wPc = "entry"
    /\ wFiles = EmptyMap
    /\ wErr = NoError
    /\ wWritten = {}

WriteIdle ==
    /\ wDir = [path |-> StrOutDir, kind |-> "dir", writable |-> TRUE]
    /\ fsFiles = EmptyMap
    /\ wTaskName = <<>>
    /\ wManifests = EmptyManifests
    /\ wPc = "idle"
    /\ wFiles = EmptyMap
    /\ wErr = NoError
    /\ wWritten = {}

\* lines 177-299: the precondition checks, the scratch-file probe and the files map
WriteManifestsEntry ==
    /\ wPc = "entry"
    /\ LET err == writePreconditionError(wDir, wTaskName)
           probed == wDir.path # <<>> /\ wDir.kind = "dir" /\ wDir.writable
           testFile == Abs(Join(wDir.path, <<".", "write_test">>))
       IN  /\ IF probed
              THEN \E removed \in BOOLEAN :
                     fsFiles' = IF removed THEN MapRemove(fsFiles, testFile)
                                ELSE MapPut(fsFiles, testFile, <<"test">>)
              ELSE fsFiles' = fsFiles
           /\ IF err # NoError
              THEN /\ wErr' = err
                   /\ wPc' = "done"
                   /\ wFiles' = EmptyMap
              ELSE /\ wErr' = NoError
                   /\ wPc' = "writing"
                   /\ wFiles' = manifestFiles(wTaskName, wManifests)
    /\ UNCHANGED <<wDir, wTaskName, wManifests, wWritten>>
    /\ UNCHANGED qtyVars
    /\ UNCHANGED convVars
    /\ UNCHANGED runVars

\* lines 302-337: one iteration of the range over the files map, in any order
WriteNextFile ==
    /\ wPc = "writing"
    /\ \E filename \in DOMAIN wFiles :
         LET err == writePathError(wDir.path, filename)
             filePath == Abs(Join(wDir.path, filename))
         IN  IF err # NoError
             THEN /\ wErr' = err
                  /\ wPc' = "done"
                  /\ UNCHANGED <<fsFiles, wFiles, wWritten>>
             ELSE \E written \in (IF wDir.kind = "dir" /\ wDir.writable
                                  THEN BOOLEAN ELSE {FALSE}) :
                    IF written
                    THEN /\ fsFiles' = MapPut(fsFiles, filePath, yamlMarshal(wFiles[filename]))
                         /\ wWritten' = wWritten \cup {filePath}
                         /\ wFiles' = MapRemove(wFiles, filename)
                         /\ UNCHANGED <<wErr, wPc>>
                    ELSE /\ wErr' = ErrWriteFile
                         /\ wPc' = "done"
                         /\ UNCHANGED <<fsFiles, wFiles, wWritten>>
    /\ UNCHANGED <<wDir, wTaskName, wManifests>>
    /\ UNCHANGED qtyVars
    /\ UNCHANGED convVars
    /\ UNCHANGED runVars

\* line 339
WriteManifestsReturn ==
    /\ wPc = "writing"
    /\ DOMAIN wFiles = {}
    /\ wErr' = NoError
    /\ wPc' = "done"
    /\ UNCHANGED <<wDir, fsFiles, wTaskName, wManifests, wFiles, wWritten>>
    /\ UNCHANGED qtyVars
    /\ UNCHANGED convVars
    /\ UNCHANGED runVars

\* the caller invokes writeManifests once more with the same arguments on the
\* directory as the earlier invocation has left it
WriteManifestsAgain ==
    /\ wPc = "done"
    /\ rPc = "idle"
    /\ wPc' = "entry"
    /\ wErr' = NoError
    /\ wFiles' = EmptyMap
    /\ wWritten' = {}
    /\ UNCHANGED <<wDir, fsFiles, wTaskName, wManifests>>
    /\ UNCHANGED qtyVars
    /\ UNCHANGED convVars
    /\ UNCHANGED runVars

NextWrite ==
    \/ WriteManifestsEntry
    \/ WriteNextFile
    \/ WriteManifestsReturn
    \/ WriteManifestsAgain

-----------------------------------------------------------------------------
(* Spec: runEcs2K8s from the creation of the output directory (line 204) on *)

ArnPrefix == <<"arn", ":", "aws", ":", "ecs", ":", "r", ":", "1", ":", "task-definition", "/">>

\* two revisions of one family, another family, and an ARN that names no family
Arns ==
    { ArnPrefix \o StrWeb \o <<":", "1">>,
      ArnPrefix \o StrWeb \o <<":", "2">>,
      ArnPrefix \o StrApi \o <<":", "1">>,
      ArnPrefix \o <<":", "1">> }

\* what listTaskDefinitions can return: distinct non-empty ARNs in any order
ArnLists ==
    { l \in SeqsUpTo(Arns, MaxTasks) :
        Len(l) >= 1 /\ \A i, j \in 1..Len(l) : i # j => l[i] # l[j] }

\* a container name that climbs out of three directories
StrEscapeName == <<".", ".", "/", ".", ".", "/", ".", ".", "/", "x">>

\* what DescribeTaskDefinition can answer with
RunTaskDefs ==
    { TaskDefinition(<<>>, <<>>, <<>>),
      TaskDefinition(<<BaseContainer>>, <<>>, <<>>),
      TaskDefinition(<<[BaseContainer EXCEPT
                          !.PortMappings = <<PortMapping(Ptr(80))>>]>>,
                     Ptr(StrTaskRole), <<>>) }

ErrCreateDir == "failed to create output directory"

ErrListTaskDefs == "failed to list task definitions"

ErrHelm == "failed to create helm chart"

ErrKustomize == "failed to create kustomize structure"

ErrNoneConverted == "no task definitions were successfully converted"

InitRun ==
    /\ createHelm \in BOOLEAN
    /\ createKustomize \in BOOLEAN
    /\ rPc = "createOutputDirectory"
    /\ taskDefs = <<>>
    /\ rIdx = 1
    /\ successCount = 0
    /\ failureCount = 0
    /\ taskDefInfos = <<>>
    /\ rCur = <<>>
    /\ rHelm = "none"
    /\ rKustomize = "none"
    /\ summaryPrinted = FALSE
    /\ rResult = NoError
    /\ wDir \in { d \in DirStates : d.path # <<>> }
    /\ fsFiles = EmptyMap
    /\ wTaskName = <<>>
    /\ wManifests = EmptyManifests
    /\ wPc = "idle"
    /\ wFiles = EmptyMap
    /\ wErr = NoError
    /\ wWritten = {}

RunIdle ==
    /\ createHelm = FALSE
    /\ createKustomize = FALSE
    /\ rPc = "idle"
    /\ taskDefs = <<>>
    /\ rIdx = 1
    /\ successCount = 0
    /\ failureCount = 0
    /\ taskDefInfos = <<>>
    /\ rCur = <<>>
    /\ rHelm = "none"
    /\ rKustomize = "none"
    /\ summaryPrinted = FALSE
    /\ rResult = NoError

Return(err) ==
    /\ rResult' = err
    /\ rPc' = "returned"

\* createOutputDirectory (main.go lines 121-148) as called at line 204
CreateOutputDirectory ==
    /\ rPc = "createOutputDirectory"
    /\ IF wDir.kind = "dir"
       THEN /\ rPc' = "listTaskDefinitions"
            /\ UNCHANGED <<wDir, rResult>>
       ELSE IF wDir.kind = "missing"
       THEN \E made \in BOOLEAN :
              IF made
              THEN /\ wDir' = [wDir EXCEPT !.kind = "dir", !.writable = TRUE]
                   /\ rPc' = "listTaskDefinitions"
                   /\ UNCHANGED rResult
              ELSE /\ Return(ErrCreateDir)
                   /\ UNCHANGED wDir
       ELSE /\ Return(ErrCreateDir)
            /\ UNCHANGED wDir
    /\ UNCHANGED <<createHelm, createKustomize, taskDefs, rIdx, successCount, failureCount,
                   taskDefInfos, rCur, rHelm, rKustomize, summaryPrinted>>
    /\ UNCHANGED <<fsFiles, wTaskName, wManifests, wPc, wFiles, wErr, wWritten>>
    /\ UNCHANGED qtyVars
    /\ UNCHANGED convVars

\* lines 210-220
ListTaskDefinitions ==
    /\ rPc = "listTaskDefinitions"
    /\ \/ /\ Return(ErrListTaskDefs)
          /\ UNCHANGED taskDefs
       \/ \E arns \in ArnLists :
            /\ taskDefs' = arns
            /\ rPc' = "loop"
            /\ UNCHANGED rResult
    /\ UNCHANGED <<createHelm, createKustomize, rIdx, successCount, failureCount,
                   taskDefInfos, rCur, rHelm, rKustomize, summaryPrinted>>
    /\ UNCHANGED writeVars
    /\ UNCHANGED qtyVars
    /\ UNCHANGED convVars

\* a failed pass that moves on without counting the failure
TaskFailedUncounted ==
    /\ failureCount' = failureCount
    /\ rIdx' = rIdx + 1
    /\ UNCHANGED <<rPc, rCur, wTaskName, wManifests, wPc, wWritten>>

\* one pass of the task loop that fails before writeManifests is called
TaskFailed ==
    /\ failureCount' = failureCount + 1
    /\ rIdx' = rIdx + 1
    /\ UNCHANGED <<rPc, rCur, wTaskName, wManifests, wPc, wWritten>>

\* lines 226-280: one pass of the task loop up to the call of writeManifests
ProcessTask ==
    /\ rPc = "loop"
    /\ rIdx <= Len(taskDefs)
    /\ LET taskDefArn == taskDefs[rIdx]
       IN  IF taskDefArn = <<>>
           THEN TaskFailed
           ELSE \/ TaskFailed            \* getTaskDefinition fails or answers nil
                \/ \E taskDef \in RunTaskDefs :
                     LET taskDefName == extractTaskDefName(taskDefArn)
                         taskDefInfo == convertTaskDefToInfo(taskDef, taskDefName)
                         r == convertTaskDefToK8s(taskDef)
                     IN  IF taskDefName = <<>>
                         THEN TaskFailed
                         ELSE IF r.err # NoError
                         THEN TaskFailed
                         ELSE /\ rCur' = Ptr([taskDefInfo EXCEPT !.Manifests = r.manifests])
                              /\ wTaskName' = taskDefName
                              /\ wManifests' = r.manifests
                              /\ wPc' = "entry"
                              /\ wWritten' = {}
                              /\ rPc' = "writeManifests"
                              /\ UNCHANGED <<failureCount, rIdx>>
    /\ UNCHANGED <<createHelm, createKustomize, taskDefs, successCount, taskDefInfos,
                   rHelm, rKustomize, summaryPrinted, rResult>>
    /\ UNCHANGED <<wDir, fsFiles, wFiles, wErr>>
    /\ UNCHANGED qtyVars
    /\ UNCHANGED convVars

\* lines 280-287: writeManifests has returned
AfterWriteManifests ==
    /\ rPc = "writeManifests"
    /\ wPc = "done"
    /\ IF wErr # NoError
       THEN /\ failureCount' = failureCount + 1
            /\ UNCHANGED <<successCount, taskDefInfos>>
       ELSE /\ successCount' = successCount + 1
            /\ taskDefInfos' = Append(taskDefInfos, Deref(rCur))
            /\ UNCHANGED failureCount
    /\ rIdx' = rIdx + 1
    /\ rCur' = <<>>
    /\ wPc' = "idle"
    /\ rPc' = "loop"
    /\ UNCHANGED <<createHelm, createKustomize, taskDefs, rHelm, rKustomize,
                   summaryPrinted, rResult>>
    /\ UNCHANGED <<wDir, fsFiles, wTaskName, wManifests, wFiles, wErr, wWritten>>
    /\ UNCHANGED qtyVars
    /\ UNCHANGED convVars

\* lines 290-297: the Helm packager; its directory and file writes can fail
CreateHelmChart ==
    /\ rPc = "loop"
    /\ rIdx > Len(taskDefs)
    /\ IF createHelm /\ Len(taskDefInfos) > 0
       THEN \E ok \in (IF wDir.kind = "dir" /\ wDir.writable THEN BOOLEAN ELSE {FALSE}) :
              IF ok
              THEN /\ \E values \in createCombinedValuesYAML(taskDefInfos) :
                        fsFiles' = MapPut(fsFiles,
                                     Abs(Join(Join(Join(wDir.path, <<"helm">>), StrCluster),
                                              <<"values", ".", "yaml">>)),
                                     values)
                   /\ rHelm' = "ok"
                   /\ rPc' = "kustomize"
                   /\ UNCHANGED rResult
              ELSE /\ rHelm' = "failed"
                   /\ Return(ErrHelm)
                   /\ UNCHANGED fsFiles
       ELSE /\ rPc' = "kustomize"
            /\ UNCHANGED <<rHelm, rResult, fsFiles>>
    /\ UNCHANGED <<createHelm, createKustomize, taskDefs, rIdx, successCount, failureCount,
                   taskDefInfos, rCur, rKustomize, summaryPrinted>>
    /\ UNCHANGED <<wDir, wTaskName, wManifests, wPc, wFiles, wErr, wWritten>>
    /\ UNCHANGED qtyVars
    /\ UNCHANGED convVars

\* lines 299-306: the Kustomize packager. A directory it cannot make or a
\* kustomization.yaml it cannot write fails it; a manifest it cannot write
\* is logged and skipped
CreateKustomizeChart ==
    /\ rPc = "kustomize"
    /\ IF createKustomize /\ Len(taskDefInfos) > 0
       THEN \E outcome \in (IF wDir.kind = "dir" /\ wDir.writable
                            THEN {"mkdir", "kustomization", "done"} ELSE {"mkdir"}) :
              IF outcome = "mkdir"
              THEN /\ rKustomize' = "failed"
                   /\ Return(ErrKustomize)
                   /\ UNCHANGED fsFiles
              ELSE \E lost \in 0..Len(baseWrites(taskDefInfos)) :
                     LET basePath == kustomizeBasePath(StrCluster, wDir.path)
                         r == createKustomizeStructure(StrCluster, taskDefInfos, wDir.path,
                                                       lost, fsFiles)
                     IN  IF outcome = "kustomization"
                         THEN /\ fsFiles' = applyBaseWrites(basePath, baseWrites(taskDefInfos),
                                               1, lost,
                                               [files |-> fsFiles, resources |-> <<>>,
                                                warned |-> FALSE]).files
                              /\ rKustomize' = "failed"
                              /\ Return(ErrKustomize)
                         ELSE /\ fsFiles' = r.files
                              /\ rKustomize' = IF r.warned THEN "warned" ELSE "ok"
                              /\ rPc' = "summary"
                              /\ UNCHANGED rResult
       ELSE /\ rPc' = "summary"
            /\ UNCHANGED <<rKustomize, rResult, fsFiles>>
    /\ UNCHANGED <<createHelm, createKustomize, taskDefs, rIdx, successCount, failureCount,
                   taskDefInfos, rCur, rHelm, summaryPrinted>>
    /\ UNCHANGED <<wDir, wTaskName, wManifests, wPc, wFiles, wErr, wWritten>>
    /\ UNCHANGED qtyVars
    /\ UNCHANGED convVars

\* lines 308-329: the summary report and the final result
Summary ==
    /\ rPc = "summary"
    /\ summaryPrinted' = TRUE
    /\ Return(IF successCount = 0 THEN ErrNoneConverted ELSE NoError)
    /\ UNCHANGED <<createHelm, createKustomize, taskDefs, rIdx, successCount, failureCount,
                   taskDefInfos, rCur, rHelm, rKustomize>>
    /\ UNCHANGED writeVars
    /\ UNCHANGED qtyVars
    /\ UNCHANGED convVars

Next ==
    \/ CreateOutputDirectory
    \/ ListTaskDefinitions
    \/ ProcessTask
    \/ WriteManifestsEntry
    \/ WriteNextFile
    \/ WriteManifestsReturn
    \/ AfterWriteManifests
    \/ CreateHelmChart
    \/ CreateKustomizeChart
    \/ Summary

-----------------------------------------------------------------------------
(* SpecKustomize: runEcs2K8s from line 299 on, entered with every task of   *)
(* the list converted and written                                           *)

\* the task definitions behind the tasks handed to the packager
KustomizeTaskDefs ==
    { TaskDefinition(<<BaseContainer>>, <<>>, <<>>),
      TaskDefinition(<<ExampleContainer>>, Ptr(StrTaskRole), <<>>),
      TaskDefinition(<<ExampleContainer, ApiContainer>>, <<>>, <<>>),
      TaskDefinition(<<[BaseContainer EXCEPT
                          !.Name = Ptr(StrEscapeName),
                          !.PortMappings = <<PortMapping(Ptr(80))>>]>>,
                     <<>>, <<>>) }

\* writeManifests returns nil for this task when no write fails
WrittenWithoutError(outputDir, taskDefName, manifests) ==
    /\ taskDefName # <<>>
    /\ isValidFilename(taskDefName)
    /\ \A filename \in DOMAIN manifestFiles(taskDefName, manifests) :
          writePathError(outputDir, filename) = NoError

\* the files the task loop has left in the output directory
RECURSIVE writtenManifests(_, _, _)
writtenManifests(outputDir, infos, fs) ==
    IF infos = <<>> THEN fs
    ELSE LET files == manifestFiles(Head(infos).Name, Head(infos).Manifests)
             paths == { Abs(Join(outputDir, f)) : f \in DOMAIN files }
         IN  writtenManifests(outputDir, Tail(infos),
               [path \in (DOMAIN fs) \cup paths |->
                  IF path \in paths
                  THEN yamlMarshal(files[CHOOSE f \in DOMAIN files :
                                           Abs(Join(outputDir, f)) = path])
                  ELSE fs[path]])

InitKustomize ==
    /\ createHelm = FALSE
    /\ createKustomize = TRUE
    /\ rPc = "kustomize"
    /\ \E arns \in { l \in ArnLists : \A i \in 1..Len(l) : extractTaskDefName(l[i]) # <<>> } :
       \E tds \in [1..Len(arns) -> KustomizeTaskDefs] :
         LET infos == [i \in 1..Len(arns) |->
                         [convertTaskDefToInfo(tds[i], extractTaskDefName(arns[i]))
                            EXCEPT !.Manifests = convertTaskDefToK8s(tds[i]).manifests]]
         IN  /\ \A i \in 1..Len(arns) :
                  /\ convertTaskDefToK8s(tds[i]).err = NoError
                  /\ WrittenWithoutError(StrOutDir, infos[i].Name, infos[i].Manifests)
             /\ taskDefs = arns
             /\ taskDefInfos = infos
             /\ fsFiles = writtenManifests(StrOutDir, infos, EmptyMap)
    /\ rIdx = Len(taskDefs) + 1
    /\ successCount = Len(taskDefs)
    /\ failureCount = 0
    /\ rCur = <<>>
    /\ rHelm = "none"
    /\ rKustomize = "none"
    /\ summaryPrinted = FALSE
    /\ rResult = NoError
    /\ wDir = [path |-> StrOutDir, kind |-> "dir", writable |-> TRUE]
    /\ wTaskName = <<>>
    /\ wManifests = EmptyManifests
    /\ wPc = "idle"
    /\ wFiles = EmptyMap
    /\ wErr = NoError
    /\ wWritten = {}

NextKustomize == CreateKustomizeChart \/ Summary

-----------------------------------------------------------------------------
(* Specifications *)

StartQty == InitQty /\ ConvIdle /\ WriteIdle /\ RunIdle

SpecQty == StartQty /\ [][NextQty]_vars

StartConv == InitConv /\ QtyIdle /\ WriteIdle /\ RunIdle

SpecConv == StartConv /\ [][NextConv]_vars

StartWrite == InitWrite /\ QtyIdle /\ ConvIdle /\ RunIdle

SpecWrite == StartWrite /\ [][NextWrite]_vars

StartKustomize == InitKustomize /\ QtyIdle /\ ConvIdle

SpecKustomize == StartKustomize /\ [][NextKustomize]_vars

Init == InitRun /\ QtyIdle /\ ConvIdle

Spec == Init /\ [][Next]_vars

-----------------------------------------------------------------------------
(* Properties of the resource quantity mapper *)

BytesLeq(a, b) == a.hi < b.hi \/ (a.hi = b.hi /\ a.lo <= b.lo)

\* C7: memoryToQuantity is total on optional int32 inputs and does not
\* overflow: nil, zero and negative values give 128Mi, values above 262144 give
\* 256Gi, a value m in 1..262144 gives exactly m MiB (m * 1024 * 1024 bytes);
\* so the result lies between 1Mi and 256Gi and is non-decreasing in m >= 1.
C7_MemoryToQuantity ==
    qMemOut # <<>> =>
        LET q == Deref(qMemOut)
        IN  /\ q.format = "BinarySI"
            /\ q.lo = 0
            /\ (IsNil(qMem) \/ Deref(qMem) <= 0) => q.hi = 128
            /\ (~IsNil(qMem) /\ Deref(qMem) > 262144) => q.hi = 256 * 1024
            /\ (~IsNil(qMem) /\ Deref(qMem) >= 1 /\ Deref(qMem) <= 262144)
                  => q.hi = Deref(qMem)
            /\ q.hi >= 1 /\ q.hi <= 256 * 1024
            /\ (~IsNil(qMem) /\ Deref(qMem) >= 1) =>
                  \A n \in Int32Samples :
                      /\ (n >= 1 /\ n <= Deref(qMem))
                            => BytesLeq(memoryToQuantity(Ptr(n)), q)
                      /\ (n >= Deref(qMem))
                            => BytesLeq(q, memoryToQuantity(Ptr(n)))

\* a memory value just below the cap has been mapped 1:1
C7_Witness ==
    /\ qMemOut # <<>>
    /\ ~IsNil(qMem)
    /\ Deref(qMem) = 262144 - 1
    /\ Deref(qMemOut).hi = 262143

-----------------------------------------------------------------------------
(* Properties of the conversion of one task definition *)

\* a container definition the converter keeps: name and image present, non-empty
KeptDefinition(c) ==
    /\ ~IsNil(c.Name) /\ Deref(c.Name) # <<>>
    /\ ~IsNil(c.Image) /\ Deref(c.Image) # <<>>

\* an environment entry with a non-empty name and a present value
UsableEnv(e) == ~IsNil(e.Name) /\ Deref(e.Name) # <<>> /\ ~IsNil(e.Value)

SameLetter(a, b) ==
    (IF a \in DOMAIN UpperOf THEN UpperOf[a] ELSE a)
      = (IF b \in DOMAIN UpperOf THEN UpperOf[b] ELSE b)

\* the name starts, ignoring case, with one of the nine sensitive words
SensitiveName(name) ==
    \E w \in { <<"A","W","S">>, <<"S","E","C","R","E","T">>,
               <<"P","A","S","S","W","O","R","D">>, <<"T","O","K","E","N">>,
               <<"K","E","Y">>, <<"P","R","I","V","A","T","E">>,
               <<"A","C","C","E","S","S">>, <<"A","U","T","H">>,
               <<"C","E","R","T">> } :
        /\ Len(name) >= Len(w)
        /\ \A k \in 1..Len(w) : SameLetter(name[k], w[k])

Converted == cPc \in {"converted", "packaged"}

\* C1: for every kept container and every usable environment variable, the
\* variable is in the Secret {container}-secret iff its name starts (ignoring
\* case) with a sensitive word, otherwise in the ConfigMap {container}-config;
\* never in both, always in one; no ConfigMap or Secret has an empty data map.
C1_EnvClassification ==
    Converted =>
      /\ \A c \in Range(cTaskDef.ContainerDefinitions) :
           KeptDefinition(c) =>
             \A e \in Range(c.Environment) :
               UsableEnv(e) =>
                 LET key == Deref(e.Name)
                     inSecret == \E s \in Range(cManifests.Secrets) :
                                    /\ s.Name = Deref(c.Name) \o <<"-secret">>
                                    /\ key \in DOMAIN s.StringData
                     inConfig == \E m \in Range(cManifests.ConfigMaps) :
                                    /\ m.Name = Deref(c.Name) \o <<"-config">>
                                    /\ key \in DOMAIN m.Data
                 IN  /\ inSecret <=> SensitiveName(key)
                     /\ inConfig <=> ~SensitiveName(key)
      /\ \A s \in Range(cManifests.Secrets) : DOMAIN s.StringData # {}
      /\ \A m \in Range(cManifests.ConfigMaps) : DOMAIN m.Data # {}

\* a container with a mixed-case sensitive name and a plain name was converted
C1_Witness ==
    /\ Converted
    /\ \E s \in Range(cManifests.Secrets) : StrToken \in DOMAIN s.StringData
    /\ \E m \in Range(cManifests.ConfigMaps) : StrMyKey \in DOMAIN m.Data

\* C2: the value of a variable classified as secret appears only in the
\* Secret: not as a literal value in the Deployment's container env list, not
\* in a ConfigMap, not in the env list of the Helm values.
C2_SecretValueOnlyInSecret ==
    Converted =>
      \A c \in Range(cTaskDef.ContainerDefinitions) :
        KeptDefinition(c) =>
          \A e \in Range(c.Environment) :
            (UsableEnv(e) /\ SensitiveName(Deref(e.Name))) =>
              /\ \A pc \in Range(Deref(cManifests.Deployment).Containers) :
                   \A v \in Range(pc.Env) :
                     ~(v.Name = Deref(e.Name) /\ v.Value = Deref(e.Value))
              /\ \A m \in Range(cManifests.ConfigMaps) :
                   \A k \in DOMAIN m.Data :
                     ~(k = Deref(e.Name) /\ m.Data[k] = Deref(e.Value))
              /\ cValues # <<>> =>
                   \A n \in DOMAIN Deref(cValues).services :
                     \A hc \in Range(Deref(cValues).services[n].containers) :
                       hc.env # <<>> =>
                         \A v \in Range(Deref(hc.env)) :
                           ~(v.name = Deref(e.Name) /\ v.value = Deref(e.Value))

ValidPort(p) == p >= 1 /\ p <= 65535

\* C3: a port mapping whose container port is absent or outside 1..65535
\* appears in no generated port list (PodSpec container ports, Service ports,
\* ContainerResources ports, ports of the Helm values), and a container all of
\* whose port mappings are invalid yields no Service.
C3_InvalidPortsNowhere ==
    Converted =>
      /\ \A pc \in Range(Deref(cManifests.Deployment).Containers) :
           \A p \in Range(pc.Ports) : ValidPort(p.ContainerPort)
      /\ \A svc \in Range(cManifests.Services) :
           \A p \in Range(svc.Ports) : ValidPort(p.Port) /\ ValidPort(p.TargetPort)
      /\ \A r \in Range(cManifests.Containers) :
           \A p \in Range(r.Ports) : ValidPort(p)
      /\ cValues # <<>> =>
           \A n \in DOMAIN Deref(cValues).services :
             \A hc \in Range(Deref(cValues).services[n].containers) :
               hc.ports # <<>> => \A p \in Range(Deref(hc.ports)) : ValidPort(p)
      /\ \A c \in Range(cTaskDef.ContainerDefinitions) :
           (/\ KeptDefinition(c)
            /\ \A pm \in Range(c.PortMappings) :
                 IsNil(pm.ContainerPort) \/ ~ValidPort(Deref(pm.ContainerPort)))
             => ~\E svc \in Range(cManifests.Services) : svc.Name = Deref(c.Name)

\* C8: convertTaskDefToK8s fails with "no container definitions" exactly when
\* there is no container entry, with "no valid containers" exactly when there
\* is at least one and each lacks a name or an image, and otherwise returns
\* manifests without error, whatever was dropped.
C8_ConversionErrors ==
    cPc \in {"failed", "converted", "packaged"} =>
      LET defs == cTaskDef.ContainerDefinitions
          noneKept == \A c \in Range(defs) : ~KeptDefinition(c)
      IN  /\ (cErr = ErrNoContainerDefinitions) <=> (Len(defs) = 0)
          /\ (cErr = ErrNoValidContainers) <=> (Len(defs) >= 1 /\ noneKept)
          /\ (Len(defs) >= 1 /\ ~noneKept) =>
                /\ cErr = NoError
                /\ cPc # "failed"
                /\ ~IsNil(cManifests.Deployment)
          /\ (cErr # NoError) <=> (cPc = "failed")

\* several container entries, none usable
C8_Witness ==
    /\ cPc = "failed"
    /\ cErr = ErrNoValidContainers
    /\ Len(cTaskDef.ContainerDefinitions) >= 2

-----------------------------------------------------------------------------
(* Properties of writeManifests *)

\* the path lies strictly below the directory, component by component
InsideDir(path, dir) ==
    LET pc == SelectSeq(SplitPath(path, <<>>, <<>>), LAMBDA c : c # <<>>)
        dc == SelectSeq(SplitPath(dir, <<>>, <<>>), LAMBDA c : c # <<>>)
    IN  /\ Len(pc) > Len(dc)
        /\ SubSeq(pc, 1, Len(dc)) = dc
        /\ \A i \in 1..Len(pc) : pc[i] # <<".", ".">> /\ pc[i] # <<".">>

\* the string holds "../"
HasDotDotSlash(str) ==
    \E i \in 1..(Len(str) - 2) : str[i] = "." /\ str[i + 1] = "." /\ str[i + 2] = "/"

\* C4: every path writeManifests writes a manifest to lies, once normalized,
\* inside outputDir, whatever the task name and the resource names; a task
\* name holding "../" is rejected with an error before any manifest is written.
C4_PathContainment ==
    /\ \A path \in wWritten : InsideDir(path, Abs(wDir.path))
    /\ (wPc \in {"writing", "done"} /\ HasDotDotSlash(wTaskName)) =>
          /\ wPc = "done"
          /\ wErr # NoError
          /\ wWritten = {}
          /\ \A path \in DOMAIN fsFiles :
                path = Abs(Join(wDir.path, <<".", "write_test">>))

\* a task name made of dots only has passed the checks and a file was written
C4_Witness ==
    /\ wTaskName = <<".", ".">>
    /\ wWritten # {}

\* one of the characters the writer refuses
RefusedChar(c) == c \in {"/", "\\", ":", "*", "?", "\"", "<", ">", "|"}

\* C5: writeManifests returns a specific error and writes no manifest file
\* whenever a precondition fails: outputDir empty, missing, not a directory
\* or not writable, taskName empty or holding one of / \ : * ? " < > |.
C5_PreconditionsFailLoudly ==
    wPc \in {"writing", "done"} =>
      LET dirOk == wDir.path # <<>> /\ wDir.kind = "dir" /\ wDir.writable
          nameOk == wTaskName # <<>> /\ \A i \in 1..Len(wTaskName) : ~RefusedChar(wTaskName[i])
          failed == wPc = "done" /\ wWritten = {} /\ wFiles = EmptyMap
      IN  /\ (wDir.path = <<>>) => (failed /\ wErr = ErrDirEmpty)
          /\ (wDir.path # <<>> /\ wDir.kind = "missing") => (failed /\ wErr = ErrDirNotExist)
          /\ (wDir.path # <<>> /\ wDir.kind = "file") => (failed /\ wErr = ErrNotDir)
          /\ (wDir.path # <<>> /\ wDir.kind = "dir" /\ ~wDir.writable)
                => (failed /\ wErr = ErrNotWritable)
          /\ (dirOk /\ wTaskName = <<>>) => (failed /\ wErr = ErrNameEmpty)
          /\ (dirOk /\ wTaskName # <<>> /\ ~nameOk) => (failed /\ wErr = ErrNameInvalid)
          /\ ~(dirOk /\ nameOk) =>
                /\ failed
                /\ wErr # NoError
                /\ \A path \in DOMAIN fsFiles :
                      path = Abs(Join(wDir.path, <<".", "write_test">>))

\* a usable directory, a task name with a colon: refused, nothing written
C5_Witness ==
    /\ wPc = "done"
    /\ wDir.kind = "dir" /\ wDir.writable /\ wDir.path # <<>>
    /\ wTaskName = <<"a", ":", "b">>
    /\ wErr = ErrNameInvalid
    /\ wWritten = {}

-----------------------------------------------------------------------------
(* runEcs2K8s: failure isolation and the summary report *)

\* the run has gone through the whole list of task definitions
LoopDone == taskDefs # <<>> /\ rIdx > Len(taskDefs)

DirUnusable == ~(wDir.kind = "dir" /\ wDir.writable)

\* C9: a failure on one task definition never stops the remaining task
\* definitions from being processed (a run that has started the task loop
\* returns only after every listed task definition was counted as a success or
\* as a failure), and the run reports failure only when the output directory
\* is unusable or every task definition failed.
C9_FailureIsolation ==
    (rPc = "returned" /\ taskDefs # <<>>) =>
        /\ LoopDone
        /\ successCount + failureCount = Len(taskDefs)
        /\ rResult # NoError => (DirUnusable \/ successCount = 0)

\* C10: a run of runEcs2K8s that has started processing task definitions and
\* has returned has printed the summary report, also when some or all task
\* definitions failed or a requested packaging step failed.
C10_SummaryAlwaysPrinted ==
    (rPc = "returned" /\ taskDefs # <<>>) => summaryPrinted

-----------------------------------------------------------------------------
(* writeManifests: the files of one task *)

\* the path of a file of the output directory
InDir(filename) == Abs(Join(wDir.path, filename))

ProbePath == InDir(<<".", "write_test">>)

\* the file names of a list of resources: the plain name for a single one, a
\* suffix for each of several
NamedFiles(kind, n, suffix(_)) ==
    IF n = 1 THEN { wTaskName \o <<kind, ".", "yaml">> }
    ELSE { wTaskName \o <<kind>> \o suffix(i) \o <<".", "yaml">> : i \in 1..n }

ExpectedDeploymentFiles ==
    IF IsNil(wManifests.Deployment) THEN {}
    ELSE { wTaskName \o <<"-deployment", ".", "yaml">> }

ExpectedConfigMapFiles ==
    NamedFiles("-configmap", Len(wManifests.ConfigMaps), LAMBDA i : <<"-", ToString(i - 1)>>)

ExpectedSecretFiles ==
    NamedFiles("-secret", Len(wManifests.Secrets), LAMBDA i : <<"-", ToString(i - 1)>>)

ExpectedServiceFiles ==
    NamedFiles("-service", Len(wManifests.Services),
               LAMBDA i : <<"-">> \o wManifests.Services[i].Name)

ExpectedFiles ==
    ExpectedDeploymentFiles \cup ExpectedConfigMapFiles
        \cup ExpectedSecretFiles \cup ExpectedServiceFiles

ManifestPaths == (DOMAIN fsFiles) \ {ProbePath}

-----------------------------------------------------------------------------
(* Environment variables that cannot be used *)

\* some usable environment entry of a container definition called
\* containerName carries this name and this value
FromUsableEnv(containerName, name, value) ==
    \E c \in Range(cTaskDef.ContainerDefinitions) :
        /\ ~IsNil(c.Name)
        /\ Deref(c.Name) = containerName
        /\ \E e \in Range(c.Environment) :
              UsableEnv(e) /\ Deref(e.Name) = name /\ Deref(e.Value) = value

\* C12: an environment variable whose name is absent or empty, or whose value
\* is absent, does not fail the conversion and appears in no artifact: every
\* entry of a ConfigMap, of a Secret, of a container's env list and of the
\* env list of the Helm values is a variable with a non-empty name and a
\* present value of that container.
C12_UnusableEnvNowhere ==
    Converted =>
      /\ cErr = NoError
      /\ \A m \in Range(cManifests.ConfigMaps) :
           \A k \in DOMAIN m.Data :
             \E c \in Range(cTaskDef.ContainerDefinitions) :
                /\ ~IsNil(c.Name)
                /\ m.Name = Deref(c.Name) \o <<"-config">>
                /\ FromUsableEnv(Deref(c.Name), k, m.Data[k])
      /\ \A s \in Range(cManifests.Secrets) :
           \A k \in DOMAIN s.StringData :
             \E c \in Range(cTaskDef.ContainerDefinitions) :
                /\ ~IsNil(c.Name)
                /\ s.Name = Deref(c.Name) \o <<"-secret">>
                /\ FromUsableEnv(Deref(c.Name), k, s.StringData[k])
      /\ \A pc \in Range(Deref(cManifests.Deployment).Containers) :
           \A v \in Range(pc.Env) : FromUsableEnv(pc.Name, v.Name, v.Value)
      /\ cValues # <<>> =>
           \A n \in DOMAIN Deref(cValues).services :
             \A hc \in Range(Deref(cValues).services[n].containers) :
               hc.env # <<>> =>
                 \A v \in Range(Deref(hc.env)) : FromUsableEnv(hc.name, v.name, v.value)

\* the part of C12 that leaves the Helm values aside
UnusableEnvNotInManifests ==
    Converted =>
      /\ \A m \in Range(cManifests.ConfigMaps) : \A k \in DOMAIN m.Data : k # <<>>
      /\ \A s \in Range(cManifests.Secrets) : \A k \in DOMAIN s.StringData : k # <<>>
      /\ \A pc \in Range(Deref(cManifests.Deployment).Containers) :
           \A v \in Range(pc.Env) : FromUsableEnv(pc.Name, v.Name, v.Value)

-----------------------------------------------------------------------------
(* Services *)

\* the container ports of the mappings that carry a port in 1..65535, in mapping order
ValidPortsOf(c) ==
    LET usable == SelectSeq(c.PortMappings,
                            LAMBDA pm : ~IsNil(pm.ContainerPort)
                                        /\ ValidPort(Deref(pm.ContainerPort)))
    IN  [i \in 1..Len(usable) |-> Deref(usable[i].ContainerPort)]

\* the kept container definitions that have a valid port, in their order
ContainersWithService ==
    SelectSeq(cTaskDef.ContainerDefinitions,
              LAMBDA c : KeptDefinition(c) /\ Len(ValidPortsOf(c)) > 0)

-----------------------------------------------------------------------------
(* Identity *)

Present(arn) == ~IsNil(arn) /\ Deref(arn) # <<>>

\* the role the task definition asks for: <<>> for none, <<arn>> otherwise
ChosenRole ==
    IF Present(cTaskDef.TaskRoleArn) THEN cTaskDef.TaskRoleArn
    ELSE IF Present(cTaskDef.ExecutionRoleArn) THEN cTaskDef.ExecutionRoleArn
    ELSE <<>>

RoleAnnotations ==
    IF ChosenRole = <<>> THEN EmptyMap
    ELSE [x \in {"eks.amazonaws.com/role-arn"} |-> Deref(ChosenRole)]

\* C14: the role is the task role ARN when that is present and non-empty,
\* otherwise the execution role ARN when that is present and non-empty,
\* otherwise none; the ServiceAccount's role-arn annotation and the iamRoleArn
\* and serviceAccount annotation of the task's Helm values entry show that
\* same role, or are absent when there is none.
C14_RolePriority ==
    Converted =>
      /\ ~IsNil(cManifests.ServiceAccount)
      /\ Deref(cManifests.ServiceAccount).Annotations = RoleAnnotations
      /\ cValues # <<>> =>
           \A n \in DOMAIN Deref(cValues).services :
              LET config == Deref(cValues).services[n]
              IN  /\ config.iamRoleArn = ChosenRole
                  /\ config.serviceAccount =
                        (IF ChosenRole = <<>> THEN <<>>
                         ELSE Ptr([annotations |-> RoleAnnotations]))

\* both roles present: the task role is in the annotation and in the Helm values
C14_Witness ==
    /\ cPc = "packaged"
    /\ cTaskDef.TaskRoleArn = Ptr(StrTaskRole)
    /\ cTaskDef.ExecutionRoleArn = Ptr(StrExecRole)
    /\ Deref(cManifests.ServiceAccount).Annotations["eks.amazonaws.com/role-arn"] = StrTaskRole
    /\ \E n \in DOMAIN Deref(cValues).services :
          Deref(cValues).services[n].iamRoleArn = Ptr(StrTaskRole)

-----------------------------------------------------------------------------
(* ServiceAccount names *)

\* C15: the ServiceAccount of every converted task definition is named
\* {task}-sa after that task definition, which is the name the Helm templates
\* use for it, so task definitions with different names have ServiceAccounts
\* with different names.
C15_ServiceAccountNamedAfterTask ==
    /\ \A i \in 1..Len(taskDefInfos) :
          LET info == taskDefInfos[i]
          IN  /\ ~IsNil(info.Manifests.ServiceAccount)
              /\ Deref(info.Manifests.ServiceAccount).Name = info.Name \o <<"-sa">>
              /\ Deref(info.Manifests.ServiceAccount).Name = helmServiceAccountName(info.Name)
    /\ \A i, j \in 1..Len(taskDefInfos) :
          taskDefInfos[i].Name # taskDefInfos[j].Name =>
             Deref(taskDefInfos[i].Manifests.ServiceAccount).Name
                # Deref(taskDefInfos[j].Manifests.ServiceAccount).Name

-----------------------------------------------------------------------------
(* Aggregation over the containers of a task definition *)

KeptDefinitions == SelectSeq(cTaskDef.ContainerDefinitions, KeptDefinition)

HasConfigVar(c) ==
    \E e \in Range(c.Environment) : UsableEnv(e) /\ ~SensitiveName(Deref(e.Name))

HasSecretVar(c) ==
    \E e \in Range(c.Environment) : UsableEnv(e) /\ SensitiveName(Deref(e.Name))

\* the names of the kept containers that satisfy has, each with a suffix
NamesOf(has(_), suffix) ==
    LET cs == SelectSeq(KeptDefinitions, has)
    IN  [i \in 1..Len(cs) |-> Deref(cs[i].Name) \o suffix]

NameSeq(resources) == [i \in 1..Len(resources) |-> resources[i].Name]

\* C17: the PodSpec containers are exactly the container definitions with a
\* non-empty name and a non-empty image, in their original order; each kept
\* container contributes at most one ConfigMap, one Secret and one Service,
\* appended in container order, and a skipped container none; two kept
\* containers with one valid port each yield two Services, each named after
\* its container.
C17_ContainerAggregation ==
    Converted =>
      LET pod == Deref(cManifests.Deployment).Containers
      IN  /\ Len(pod) = Len(KeptDefinitions)
          /\ \A i \in 1..Len(pod) :
                /\ pod[i].Name = Deref(KeptDefinitions[i].Name)
                /\ pod[i].Image = Deref(KeptDefinitions[i].Image)
          /\ NameSeq(cManifests.ConfigMaps) = NamesOf(HasConfigVar, <<"-config">>)
          /\ NameSeq(cManifests.Secrets) = NamesOf(HasSecretVar, <<"-secret">>)
          /\ NameSeq(cManifests.Services)
                = NamesOf(LAMBDA c : Len(ValidPortsOf(c)) > 0, <<>>)
          /\ NameSeq(cManifests.Containers) = NamesOf(LAMBDA c : TRUE, <<>>)
          /\ (/\ Len(KeptDefinitions) = 2
              /\ \A i \in 1..2 : Len(ValidPortsOf(KeptDefinitions[i])) = 1) =>
                /\ Len(cManifests.Services) = 2
                /\ cManifests.Services[1].Name = Deref(KeptDefinitions[1].Name)
                /\ cManifests.Services[2].Name = Deref(KeptDefinitions[2].Name)
                /\ cManifests.Services[1].Ports[1].Port = ValidPortsOf(KeptDefinitions[1])[1]
                /\ cManifests.Services[2].Ports[1].Port = ValidPortsOf(KeptDefinitions[2])[1]

\* two different kept containers with one valid port each, in this order, and
\* two Services in the same order
C17_Witness ==
    /\ Converted
    /\ Len(cManifests.Services) = 2
    /\ cManifests.Services[1].Name = StrApi
    /\ cManifests.Services[2].Name = StrWeb
    /\ Len(cTaskDef.ContainerDefinitions) = 2

-----------------------------------------------------------------------------
(* writeManifests: repeated invocations *)

\* the directory content fs holds the manifest files that the task name and
\* the manifests determine, names and contents, and no other manifest file
ResultHeldIn(fs) ==
    LET files == manifestFiles(wTaskName, wManifests)
    IN  /\ (DOMAIN fs) \ {ProbePath} = { InDir(f) : f \in DOMAIN files }
        /\ \A f \in DOMAIN files : fs[InDir(f)] = yamlMarshal(files[f])

SameArguments == <<wDir, wTaskName, wManifests>>' = <<wDir, wTaskName, wManifests>>

\* a step that ends an invocation without error ends with the result
ResultReached == (wPc' = "done" /\ wErr' = NoError) => ResultHeldIn(fsFiles')

\* no step of writeManifests changes a directory that holds the result
ResultKept == ResultHeldIn(fsFiles) => ResultHeldIn(fsFiles')

-----------------------------------------------------------------------------
(* Packaging *)

\* C19: packaging is deterministic: every values.yaml that CreateHelmChart
\* can produce for the list of TaskDefInfo is the one it has produced, the
\* order of the entries of each container's env list included.
C19_HelmValuesDeterministic ==
    cPc = "packaged" =>
        \A values \in createCombinedValuesYAML(<<Deref(cInfo)>>) :
            values = Deref(cValues)

\* the part of C19 that holds: the env lists left aside, the values are determined
HelmValuesDeterminedButEnv ==
    cPc = "packaged" =>
        \A values \in createCombinedValuesYAML(<<Deref(cInfo)>>) :
            \A n \in DOMAIN values.services :
                LET a == values.services[n]
                    b == Deref(cValues).services[n]
                IN  /\ [a EXCEPT !.containers = <<>>] = [b EXCEPT !.containers = <<>>]
                    /\ Len(a.containers) = Len(b.containers)
                    /\ \A i \in 1..Len(a.containers) :
                          /\ [a.containers[i] EXCEPT !.env = <<>>]
                                = [b.containers[i] EXCEPT !.env = <<>>]
                          /\ (a.containers[i].env = <<>>) <=> (b.containers[i].env = <<>>)
                          /\ a.containers[i].env # <<>> =>
                                Range(Deref(a.containers[i].env))
                                   = Range(Deref(b.containers[i].env))

\* C20: the two packagers are independent of each other: when both are
\* requested and at least one task definition was converted, a run that has
\* returned has run the Kustomize packager whether or not the Helm packager
\* succeeded, and the Helm packager whether or not the Kustomize one succeeded.
C20_PackagersIndependent ==
    (/\ rPc = "returned"
     /\ createHelm
     /\ createKustomize
     /\ Len(taskDefInfos) > 0) =>
        /\ rHelm # "none"
        /\ rKustomize # "none"
        /\ rKustomize = "failed" => rHelm = "ok"

\* the half of C20 that holds: a failure of the Kustomize packager leaves the
\* Helm chart in place
HelmKeptOnKustomizeFailure ==
    rKustomize = "failed" =>
        (createHelm => rHelm = "ok" /\ \E p \in DOMAIN fsFiles : p[Len(p) - 2] = "values")

-----------------------------------------------------------------------------
(* The Kustomize base and its resources list *)

BasePath == kustomizeBasePath(StrCluster, wDir.path)

BaseKustomizationPath == Join(BasePath, <<"kustomization", ".", "yaml">>)

\* the manifest files that lie under base/
BaseManifestPaths ==
    { path \in DOMAIN fsFiles :
        HasPrefix(path, BasePath \o <<"/">>) /\ path # BaseKustomizationPath }

\* the files that the resources of base/kustomization.yaml name
ListedPaths ==
    { Join(BasePath, fsFiles[BaseKustomizationPath].resources[i]) :
        i \in 1..Len(fsFiles[BaseKustomizationPath].resources) }

\* C21: once CreateKustomizeChart has succeeded without a failed write, the
\* resources of base/kustomization.yaml name every manifest file written
\* under base/, every Service of a task with several Services among them,
\* and name no file that was not written
C21_ResourcesListEveryBaseFile ==
    rKustomize = "ok" => ListedPaths = BaseManifestPaths

\* the half of C21 that the packager keeps: a listed path is a written file
ListedResourcesWereWritten ==
    rKustomize \in {"ok", "warned"} => ListedPaths \subseteq DOMAIN fsFiles

\* a Service file of a task with two Services that is written and not listed
SecondServiceUnlisted ==
    /\ rKustomize = "ok"
    /\ Join(BasePath, <<"services", "/">> \o FileName(StrApi, "-service", <<>>))
         \in BaseManifestPaths \ ListedPaths

-----------------------------------------------------------------------------
(* Helm values against the PodSpec *)

HelmContainers == Deref(cValues).services[StrWebapp].containers

PodContainers == Deref(cManifests.Deployment).Containers

\* the i-th Helm entry and the i-th PodSpec container are the same container
\* with the same resource quantities
SameContainer(i) ==
    /\ HelmContainers[i].name = PodContainers[i].Name
    /\ HelmContainers[i].image = PodContainers[i].Image
    /\ HelmContainers[i].resources.requests = HelmContainers[i].resources.limits
    /\ PodContainers[i].Resources.Requests = PodContainers[i].Resources.Limits
    /\ HelmContainers[i].resources.limits.cpu
         = <<QuantityString(PodContainers[i].Resources.Limits.cpu)>>
    /\ HelmContainers[i].resources.limits.memory
         = <<QuantityString(PodContainers[i].Resources.Limits.memory)>>

\* C22: the Helm values entry of a task lists exactly the containers of its
\* Deployment PodSpec, in the same order and with the same images, requests
\* equal limits in both, and the CPU and memory quantities agree, defaults
\* for missing or non-positive ECS values included
C22_HelmValuesMatchPodSpec ==
    cPc = "packaged" =>
        /\ Len(HelmContainers) = Len(PodContainers)
        /\ \A i \in 1..Len(PodContainers) : SameContainer(i)

\* what holds: the two descriptions agree when every named container has an
\* image and positive CPU and memory values
HelmValuesMatchSizedContainers ==
    (/\ cPc = "packaged"
     /\ \A i \in 1..Len(cTaskDef.ContainerDefinitions) :
          LET c == cTaskDef.ContainerDefinitions[i]
          IN  (~IsNil(c.Name) /\ Deref(c.Name) # <<>>)
                => /\ KeptDefinition(c)
                   /\ c.Cpu > 0
                   /\ ~IsNil(c.Memory) /\ Deref(c.Memory) > 0)
    => /\ Len(HelmContainers) = Len(PodContainers)
       /\ \A i \in 1..Len(PodContainers) : SameContainer(i)

-----------------------------------------------------------------------------
(* The shape of the manifest files *)

\* what ManifestValidator.ValidateYAML asks of a document
WellFormedManifest(doc) ==
    /\ "apiVersion" \in DOMAIN doc /\ doc.apiVersion # ""
    /\ "kind" \in DOMAIN doc /\ doc.kind # ""
    /\ "metadata" \in DOMAIN doc

\* C23: every manifest file that writeManifests writes carries a non-empty
\* apiVersion, a non-empty kind and a metadata section
C23_ManifestsWellFormed ==
    \A path \in ManifestPaths : WellFormedManifest(fsFiles[path])

\* what holds: the Deployment file, built as a map, has the three keys
DeploymentFileWellFormed ==
    \A path \in ManifestPaths :
        path = InDir(FileName(wTaskName, "-deployment", <<>>))
            => WellFormedManifest(fsFiles[path])

-----------------------------------------------------------------------------
(* Service selectors against the pod labels *)

\* every label of the selector is a label of the pod, with the same value
LabelsContained(selector, labels) ==
    \A k \in DOMAIN selector : k \in DOMAIN labels /\ labels[k] = selector[k]

DeploymentPath == InDir(FileName(wTaskName, "-deployment", <<>>))

\* C24: the selector of every Service of a task is contained in the pod
\* template labels of the Deployment of the same task, so the Service routes
\* to the task's pods, whatever the task name and the container names are
C24_ServiceSelectsDeploymentPods ==
    (wPc = "done" /\ wErr = NoError /\ DeploymentPath \in DOMAIN fsFiles) =>
        \A i \in 1..Len(wManifests.Services) :
            LabelsContained(wManifests.Services[i].Selector,
                            fsFiles[DeploymentPath].spec.template.metadata.labels)

-----------------------------------------------------------------------------
(* One output per task definition ARN *)

\* the Deployment files in the output directory
DeploymentFiles ==
    { path \in DOMAIN fsFiles :
        /\ path[Len(path) - 2] = "-deployment"
        /\ HasPrefix(path, Abs(wDir.path) \o <<"/">>)
        /\ ~HasPrefix(path, Abs(wDir.path) \o <<"/", "kustomize", "/">>) }

HelmValuesPath ==
    Abs(Join(Join(Join(wDir.path, <<"helm">>), StrCluster), <<"values", ".", "yaml">>))

\* C25: two distinct ARNs never write the same output file: between two
\* passes of the loop there are as many Deployment files as tasks counted
\* as successful, and the Helm values hold one entry for each of them, two
\* revisions of one family included
C25_DistinctArnsDistinctOutputs ==
    /\ rPc = "loop" => Cardinality(DeploymentFiles) = successCount
    /\ rHelm = "ok" => Cardinality(DOMAIN fsFiles[HelmValuesPath].services) = successCount

\* two revisions of one family, both written without error, one set of files
TwoRevisionsOneOutput ==
    /\ rHelm = "ok"
    /\ successCount = 2
    /\ failureCount = 0
    /\ \A i \in 1..Len(taskDefs) : extractTaskDefName(taskDefs[i]) = StrWeb
    /\ Cardinality(DeploymentFiles) = 1
    /\ DOMAIN fsFiles[HelmValuesPath].services = {StrWeb}

-----------------------------------------------------------------------------
(* Containment of the Kustomize tree *)

KustomizeTree == kustomizeRoot(StrCluster, wDir.path) \o <<"/">>

\* the files that differ between two file systems
WrittenBetween(before, after) ==
    { path \in DOMAIN after : path \notin DOMAIN before \/ after[path] # before[path] }

\* C26: every file the Kustomize packager writes lies inside the tree
\* kustomize/{cluster}/ of the output directory, for every task name and
\* every container name that reaches it after a successful writeManifests
C26_KustomizeStaysInTree ==
    [][rPc = "kustomize" =>
         \A path \in WrittenBetween(fsFiles, fsFiles') : HasPrefix(path, KustomizeTree)]_vars

\* a Service file written outside the tree of the cluster
KustomizeEscaped ==
    /\ rKustomize = "ok"
    /\ Join(Dir(kustomizeRoot(StrCluster, wDir.path)),
            <<"x", "-service", ".", "yaml">>) \in DOMAIN fsFiles

-----------------------------------------------------------------------------
(* The files of others in the output directory *)

\* the paths of the manifest files of the task being written
TaskManifestPaths == { InDir(f) : f \in DOMAIN manifestFiles(wTaskName, wManifests) }

\* C27: writeManifests changes nothing in the output directory but the
\* manifest files of its task: no step of it removes or rewrites another
\* file that was there, whatever its name, and whether the call ends in
\* success or in an error
C27_OtherFilesUntouched ==
    [][\A path \in DOMAIN fsFiles :
         path \notin TaskManifestPaths
            => (path \in DOMAIN fsFiles' /\ fsFiles'[path] = fsFiles[path])]_vars

\* what holds: every file but .write_test and the task's manifests is kept
OtherFilesButProbeUntouched ==
    [][\A path \in DOMAIN fsFiles :
         (path \notin TaskManifestPaths /\ path # ProbePath)
            => (path \in DOMAIN fsFiles' /\ fsFiles'[path] = fsFiles[path])]_vars

-----------------------------------------------------------------------------
(* The counters of the task loop *)

\* the manifest files of a packaged task are in the output directory
ManifestsOnDisk(info) ==
    \A f \in DOMAIN manifestFiles(info.Name, info.Manifests) :
        Abs(Join(wDir.path, f)) \in DOMAIN fsFiles

\* C28: the two counters account for every ARN processed so far, so that
\* after the loop their sum is the number of ARNs listed; taskDefInfos has
\* one entry for each task counted as successful, and each entry is for a
\* task whose manifest files were written
C28_CountersAccountForEveryTask ==
    /\ successCount + failureCount = rIdx - 1
    /\ rIdx <= Len(taskDefs) + 1
    /\ LoopDone => successCount + failureCount = Len(taskDefs)
    /\ Len(taskDefInfos) = successCount
    /\ \A i \in 1..Len(taskDefInfos) :
          /\ taskDefInfos[i].Name \in { extractTaskDefName(taskDefs[j]) : j \in 1..Len(taskDefs) }
          /\ ManifestsOnDisk(taskDefInfos[i])

\* a run that has gone through its list with a success and a failure
C28_Witness ==
    /\ LoopDone
    /\ rPc = "returned"
    /\ Len(taskDefs) = MaxTasks
    /\ successCount >= 1
    /\ failureCount >= 1
    /\ Len(taskDefInfos) = successCount

-----------------------------------------------------------------------------
(* The ServiceAccount in the serialized pod template *)

\* the serialized pod spec names the ServiceAccount of the PodSpec
NamesServiceAccount(serialized, podSpec) ==
    /\ "serviceAccountName" \in DOMAIN serialized
    /\ serialized.serviceAccountName = podSpec.ServiceAccountName

\* C29: the ServiceAccount attachment survives serialization: a Deployment
\* file written from a PodSpec whose serviceAccountName is set carries that
\* name in its pod template spec
C29_ServiceAccountSurvivesSerialization ==
    (/\ DeploymentPath \in ManifestPaths
     /\ ~IsNil(wManifests.Deployment)
     /\ Deref(wManifests.Deployment).ServiceAccountName # <<>>)
    => NamesServiceAccount(fsFiles[DeploymentPath].spec.template.spec,
                           Deref(wManifests.Deployment))

\* the same for the base Deployment of the Kustomize packager
KustomizeDeploymentNamesServiceAccount ==
    rKustomize = "ok" =>
        \A i \in 1..Len(taskDefInfos) :
            LET podSpec == Deref(taskDefInfos[i].Manifests.Deployment)
                file == Join(BasePath, <<"deployments", "/">>
                                       \o FileName(taskDefInfos[i].Name, "-deployment", <<>>))
            IN  podSpec.ServiceAccountName # <<>>
                  => NamesServiceAccount(fsFiles[file].spec.template.spec, podSpec)

-----------------------------------------------------------------------------
(* All or nothing *)

\* C30: a write for one task is all-or-nothing: when writeManifests returns
\* an error, none of the task's manifest files has been created or modified,
\* in whatever order the files are visited
C30_WriteAllOrNothing ==
    (wPc = "done" /\ wErr # NoError) => wWritten = {}

\* a call refused for the file name of one Service after other files of the
\* task were written
PartialWriteBeforeRefusal ==
    /\ wPc = "done"
    /\ wErr = ErrFilenameInvalid
    /\ wWritten # {}

====
